---- MODULE Spec2Model ----
(***************************************************************************)
(* Model of the devsync workflow orchestrator (src/mcp_server.py) and of   *)
(* the collaborators it drives (src/services/anthropic_service.py,         *)
(* src/tools/jira_tool.py, src/tools/github_tool.py).                      *)
(*                                                                         *)
(* Conventions.                                                            *)
(*  - A Python str whose characters the code inspects (title, component    *)
(*    names) is a sequence of one-character strings; other strs (issue     *)
(*    keys, URLs, paths, exception texts, statuses) are TLA+ strings.      *)
(*  - A Python dict is a record with a fixed set of fields plus a field    *)
(*    "keys" holding the keys that are present.                            *)
(*  - An exception is represented by its text, str(e).                     *)
(*  - process_slack_conversation is a coroutine without any await, so one  *)
(*    run is never interleaved with another run on the event loop: a run   *)
(*    starts only when no other run is in flight.  Its steps are separate  *)
(*    actions so that the order of transitions and collaborator calls      *)
(*    inside a run is observable.                                          *)
(*  - Timestamps (started_at, step timestamps) are not modelled.           *)
(*  - The functions parse_bug_report, _extract_keywords,                  *)
(*    _apply_diff_to_content and get_relevant_files are also called        *)
(*    directly, outside a run, on arguments and collaborator answers drawn *)
(*    from bounded sets: specification FnSpec.                             *)
(*  - The mention handler of src/slack_bot.py suspends at every await, so   *)
(*    the handlings of several mentions interleave there: specification     *)
(*    BotSpec, one action per segment between two awaits.                   *)
(*  - Two copies of a run that get the same collaborator answers except    *)
(*    from the similar-issue search are compared in specification TwinSpec.*)
(***************************************************************************)
EXTENDS Integers, Sequences, FiniteSets, TLC

VARIABLES
    active_workflows,   \* MCPServer.active_workflows: workflow id -> record
    pc,                 \* position of the run of each workflow id
    frame,              \* local variables of the run of each workflow id
    calls,              \* collaborator calls made by the run, in order
    raised,             \* exception that reached the handler of the run
    result,             \* value returned by the run
    runs,               \* number of runs started so far
    fn_call,            \* a direct call of one of the pure functions: its arguments
    fn_return,          \* what that call returned or raised
    processing_threads, \* DevSyncSlackBot.processing_threads: thread ids being handled
    mention,            \* the handling of each app_mention event by _process_mention
    answer              \* twin runs: what a collaborator answered the leading copy

run_vars == <<active_workflows, pc, frame, calls, raised, result, runs>>
fn_vars == <<fn_call, fn_return>>
bot_vars == <<processing_threads, mention>>
vars == <<active_workflows, pc, frame, calls, raised, result, runs, fn_call, fn_return,
          processing_threads, mention, answer>>

(***************************************************************************)
(* Bounds of the model.                                                    *)
(***************************************************************************)
MaxRuns == 2
MaxMentions == 3
\* largest max_files of a direct call of get_relevant_files
MaxAsked == 2

WorkflowIds == {"C1_100", "C1_200"}

(***************************************************************************)
(* Python values.                                                          *)
(***************************************************************************)
PyNone == "<None>"
NoRecord == [status |-> "<absent>", steps |-> <<>>]
NoExc == "<no exception>"

\* Texts of the exceptions collaborators raise; str(Exception()) is "".
ExcTexts == {"", "boom"}

\* ValueError raised at src/mcp_server.py:69
ParseFailureText == "Failed to parse bug report from conversation"

\* s[:n] for n >= 0
Take(s, n) == SubSeq(s, 1, IF n <= Len(s) THEN n ELSE Len(s))

RECURSIVE Concat(_)
Concat(ss) == IF ss = <<>> THEN <<>> ELSE Head(ss) \o Concat(Tail(ss))

IsPrefix(s, t) == Len(s) <= Len(t) /\ \A i \in 1..Len(s) : s[i] = t[i]

(***************************************************************************)
(* Python str operations on sequences of characters.                       *)
(***************************************************************************)
UpperChars == <<"A","B","C","D","E","F","G","H","I","J","K","L","M",
                "N","O","P","Q","R","S","T","U","V","W","X","Y","Z">>
LowerChars == <<"a","b","c","d","e","f","g","h","i","j","k","l","m",
                "n","o","p","q","r","s","t","u","v","w","x","y","z">>

IsUpperChar(c) == \E i \in 1..Len(UpperChars) : UpperChars[i] = c

LowerChar(c) ==
    IF IsUpperChar(c)
    THEN LowerChars[CHOOSE i \in 1..Len(UpperChars) : UpperChars[i] = c]
    ELSE c

\* str.lower()
Lower(s) == [i \in 1..Len(s) |-> LowerChar(s[i])]

\* str.split(): the maximal runs of non-blank characters
RECURSIVE SplitFrom(_, _, _)
SplitFrom(s, cur, acc) ==
    IF s = <<>>
    THEN IF cur = <<>> THEN acc ELSE Append(acc, cur)
    ELSE IF Head(s) = " "
         THEN SplitFrom(Tail(s), <<>>, IF cur = <<>> THEN acc ELSE Append(acc, cur))
         ELSE SplitFrom(Tail(s), Append(cur, Head(s)), acc)

Split(s) == SplitFrom(s, <<>>, <<>>)

\* sep.join(parts)
RECURSIVE Join(_, _)
Join(sep, parts) ==
    IF parts = <<>> THEN <<>>
    ELSE IF Len(parts) = 1 THEN Head(parts)
    ELSE Head(parts) \o sep \o Join(sep, Tail(parts))

\* sub in s
Contains(s, sub) ==
    \E i \in 0..(Len(s) - Len(sub)) : \A j \in 1..Len(sub) : s[i + j] = sub[j]

Range(s) == {s[i] : i \in 1..Len(s)}

(***************************************************************************)
(* Conversations handed to process_slack_conversation.                     *)
(***************************************************************************)
Msg(u, t) == [keys |-> {"user", "text"}, user |-> u, text |-> t]
MsgWithoutUser(t) == [keys |-> {"text"}, user |-> <<>>, text |-> t]

S_alice == <<"a","l","i","c","e">>
S_bob == <<"b","o","b">>
S_crash == <<"a","p","p"," ","c","r","a","s","h","e","s">>
S_again == <<"a","g","a","i","n">>

Conversations ==
    { <<Msg(S_alice, S_crash), Msg(S_bob, S_again)>>,
      <<MsgWithoutUser(S_crash)>> }

(***************************************************************************)
(* Bug reports: the dict parse_bug_report returns.                         *)
(***************************************************************************)
T_LoginWithForm == <<"L","o","g","i","n"," ","W","i","t","h"," ","F","o","r","m">>
T_Fallback == <<"B","u","g"," ","R","e","p","o","r","t"," ","f","r","o","m"," ",
                "S","l","a","c","k">>
C_Auth == <<"A","u","t","h">>
C_AppTsx == <<"a","p","p",".","t","s","x">>
C_ui == <<"u","i">>

\* affected_components: the shapes a JSON value can take
ACList(items) == [kind |-> "list", items |-> items]
ACStr(s) == [kind |-> "str", items |-> <<s>>]
ACNull == [kind |-> "null", items |-> <<>>]
\* a JSON object: items are its keys
ACDict(keys) == [kind |-> "dict", items |-> keys]
ACNumber == [kind |-> "number", items |-> <<>>]
ACListOfNumbers == [kind |-> "list_of_numbers", items |-> <<>>]

Report(keys, title, severity, ac, description, context) ==
    [keys |-> keys, title |-> title, severity |-> severity,
     affected_components |-> ac, description |-> description,
     additional_context |-> context]

NoReport == Report({}, <<>>, "", ACNull, <<>>, <<>>)

AllKeys == {"title", "severity", "affected_components", "description",
            "additional_context"}

\* JSON objects the language model may answer with
LlmReports ==
    { Report(AllKeys, T_LoginWithForm, "High", ACList(<<C_Auth, C_AppTsx>>), S_crash, <<>>),
      Report(AllKeys, T_LoginWithForm, "Urgent", ACStr(C_ui), S_crash, <<>>),
      Report(AllKeys \ {"severity"}, T_LoginWithForm, "", ACNull, S_crash, <<>>),
      Report(AllKeys \ {"title"}, <<>>, "High", ACList(<<>>), S_crash, <<>>),
      Report(AllKeys, <<>>, "High", ACList(<<>>), S_crash, <<>>),
      Report(AllKeys, T_LoginWithForm, "High", ACNumber, S_crash, <<>>),
      Report(AllKeys, T_LoginWithForm, "High", ACListOfNumbers, S_crash, <<>>),
      Report(AllKeys, T_LoginWithForm, "High", ACDict(<<C_ui>>), S_crash, <<>>) }

\* Outcomes of the language-model call of parse_bug_report
LlmReportOutcomes ==
    {[kind |-> k, value |-> NoReport] : k \in {"error", "no_json", "bad_json"}}
    \cup {[kind |-> "json", value |-> r] : r \in LlmReports}

\* What a function call does: return a value or raise an exception
Returned(v) == [raised |-> FALSE, err |-> NoExc, value |-> v]
Raised(e, v) == [raised |-> TRUE, err |-> e, value |-> v]

\* "\n".join(f"{msg['user']}: {msg['text']}" for msg in conversation)
FormatConversation(conversation) ==
    Join(<<"\n">>, [i \in 1..Len(conversation) |->
                     conversation[i].user \o <<":", " ">> \o conversation[i].text])

DescriptionLimit == 500

\* the fallback with the whole transcript as description
FallbackReport_untruncated(formatted_conv) ==
    Report(AllKeys, T_Fallback, "Medium", ACList(<<>>), formatted_conv, formatted_conv)

FallbackReport(formatted_conv) ==
    Report(AllKeys, T_Fallback, "Medium", ACList(<<>>),
           Take(formatted_conv, DescriptionLimit), formatted_conv)

\* AnthropicService.parse_bug_report
parse_bug_report(conversation, llm) ==
    IF \E i \in 1..Len(conversation) : ~({"user", "text"} \subseteq conversation[i].keys)
    THEN Raised("'user'", NoReport)
    ELSE IF llm.kind = "json"
         THEN Returned(llm.value)
         ELSE Returned(FallbackReport(FormatConversation(conversation)))

(***************************************************************************)
(* Workflow records (MCPServer.active_workflows) and results.              *)
(***************************************************************************)
StepData(keys, bug_title, files_to_change, issue_key, pr_url, error) ==
    [keys |-> keys, bug_title |-> bug_title, files_to_change |-> files_to_change,
     issue_key |-> issue_key, pr_url |-> pr_url, error |-> error]

NoData == StepData({}, <<>>, 0, "", "", "")
TitleData(t) == StepData({"bug_title"}, t, 0, "", "", "")
FilesData(n) == StepData({"files_to_change"}, <<>>, n, "", "", "")
IssueData(k) == StepData({"issue_key"}, <<>>, 0, k, "", "")
PrData(u) == StepData({"pr_url"}, <<>>, 0, "", u, "")
ErrorData(e) == StepData({"error"}, <<>>, 0, "", "", e)

\* the dict assigned at src/mcp_server.py:48
NewRecord == [status |-> "started", steps |-> <<>>]

\* MCPServer._update_workflow, as a function of the table
_update_workflow_overwrite(table, workflow_id, status, data) ==
    IF table[workflow_id] # NoRecord
    THEN [table EXCEPT ![workflow_id] =
            [status |-> status, steps |-> <<[status |-> status, data |-> data]>>]]
    ELSE table

\* the transition is appended to every record of the table
_update_workflow_shared(table, workflow_id, status, data) ==
    [w \in DOMAIN table |->
        IF table[w] # NoRecord
        THEN [status |-> IF w = workflow_id THEN status ELSE table[w].status,
              steps |-> Append(table[w].steps, [status |-> status, data |-> data])]
        ELSE table[w]]

\* the step is logged but the status field of the record is left as it was
_update_workflow_logonly(table, workflow_id, status, data) ==
    IF table[workflow_id] # NoRecord
    THEN [table EXCEPT ![workflow_id].steps = Append(@, [status |-> status, data |-> data])]
    ELSE table

_update_workflow(table, workflow_id, status, data) ==
    IF table[workflow_id] # NoRecord
    THEN [table EXCEPT ![workflow_id] =
            [status |-> status,
             steps |-> Append(@.steps, [status |-> status, data |-> data])]]
    ELSE table

\* the accessor indexing the table: an unknown id raises KeyError
get_workflow_status_index(table, workflow_id) ==
    IF workflow_id \in DOMAIN table /\ table[workflow_id] # NoRecord
    THEN Returned(table[workflow_id])
    ELSE Raised("KeyError", NoRecord)

\* MCPServer.get_workflow_status: dict.get, None (here NoRecord) for an
\* unknown id
get_workflow_status(table, workflow_id) ==
    IF workflow_id \in DOMAIN table /\ table[workflow_id] # NoRecord
    THEN Returned(table[workflow_id])
    ELSE Returned(NoRecord)

ResultDict(keys, success, workflow_id, issue_key, pr_url, bug_title, severity, similar_issues, error) ==
    [keys |-> keys, success |-> success, workflow_id |-> workflow_id,
     issue_key |-> issue_key, pr_url |-> pr_url, bug_title |-> bug_title,
     severity |-> severity, similar_issues |-> similar_issues, error |-> error]

NoResult == ResultDict({}, FALSE, "", "", PyNone, <<>>, "", <<>>, "")

\* the dict built at src/mcp_server.py:203
FailureResult(workflow_id, e) ==
    ResultDict({"success", "workflow_id", "error", "message"},
               FALSE, workflow_id, "", PyNone, <<>>, "", <<>>, e)

\* bug_report.get('severity', 'Medium')
GetSeverity(bug_report) ==
    IF "severity" \in bug_report.keys THEN bug_report.severity ELSE "Medium"

\* the dict built at src/mcp_server.py:184
SuccessResult(workflow_id, f) ==
    ResultDict({"success", "workflow_id", "issue_key", "issue_url", "pr_url",
                "bug_title", "severity", "similar_issues", "message"},
               TRUE, workflow_id, f.issue_key, f.pr_url, f.bug_report.title,
               GetSeverity(f.bug_report), f.similar_issues, "")

(***************************************************************************)
(* Local variables of one run and the log of its collaborator calls.       *)
(***************************************************************************)
\* code_changes: kind is "list" or "null" (JSON null)
Fix(keys, root_cause, kind, changes) ==
    [keys |-> keys, root_cause |-> root_cause,
     code_changes |-> [kind |-> kind, items |-> changes]]

NoFix == Fix({}, "", "list", <<>>)

NoFrame ==
    [conversation |-> <<>>, bug_report |-> NoReport, similar_issues |-> <<>>,
     relevant_files |-> <<>>, code_context |-> <<>>, fix |-> NoFix, issue_key |-> "", branch_name |-> "",
     pr_url |-> PyNone]

Call(op, ok, err, arg) == [op |-> op, ok |-> ok, err |-> err, arg |-> arg, content |-> ""]
Write(op, ok, err, path, content) ==
    [op |-> op, ok |-> ok, err |-> err, arg |-> path, content |-> content]

TotalRuns == LET ids == WorkflowIds
                 RECURSIVE Sum(_)
                 Sum(S) == IF S = {} THEN 0
                           ELSE LET x == CHOOSE x \in S : TRUE
                                IN runs[x] + Sum(S \ {x})
             IN Sum(ids)

NoRunInFlight == \A id \in WorkflowIds : pc[id] = "idle"

\* No direct call of a pure function is under way.
NoEnv == [search |-> <<>>, fetch |-> <<>>]
NoFnCall ==
    [fn |-> "<none>", conversation |-> <<>>,
     llm |-> [kind |-> "error", value |-> NoReport],
     bug_report |-> NoReport, original |-> <<>>, diff |-> <<>>,
     workflow_id |-> "", keywords |-> <<>>, max_files |-> 0, env |-> NoEnv]
Pending == [raised |-> FALSE, err |-> "<pending>", value |-> <<>>]

\* twin runs: no answer is waiting to be given to the second copy
NoAnswer == [waiting |-> FALSE, value |-> <<>>]

\* The app_mention events and the handling of one that has not arrived yet.
Mentions == 1..MaxMentions
NotDelivered ==
    [pc |-> "pending", thread_id |-> "", rejected |-> FALSE, invoked |-> FALSE,
     said |-> <<>>]

Init ==
    /\ active_workflows = [id \in WorkflowIds |-> NoRecord]
    /\ pc = [id \in WorkflowIds |-> "idle"]
    /\ frame = [id \in WorkflowIds |-> NoFrame]
    /\ calls = [id \in WorkflowIds |-> <<>>]
    /\ raised = [id \in WorkflowIds |-> NoExc]
    /\ result = [id \in WorkflowIds |-> NoResult]
    /\ runs = [id \in WorkflowIds |-> 0]
    /\ fn_call = NoFnCall
    /\ fn_return = Pending
    /\ processing_threads = {}
    /\ mention = [m \in Mentions |-> NotDelivered]
    /\ answer = NoAnswer

(***************************************************************************)
(* process_slack_conversation, step by step.                               *)
(***************************************************************************)
\* An exception leaves the coroutine instead of being turned into a result.
HandleException_propagate(id, e) ==
    /\ active_workflows' = active_workflows
    /\ result' = result
    /\ raised' = [raised EXCEPT ![id] = e]
    /\ frame' = [frame EXCEPT ![id] = NoFrame]
    /\ pc' = [pc EXCEPT ![id] = "propagated"]

\* The handler returns the failure result without recording 'failed'.
HandleException_unrecorded(id, e) ==
    /\ active_workflows' = active_workflows
    /\ result' = [result EXCEPT ![id] = FailureResult(id, e)]
    /\ raised' = [raised EXCEPT ![id] = e]
    /\ frame' = [frame EXCEPT ![id] = NoFrame]
    /\ pc' = [pc EXCEPT ![id] = "returned"]

\* The handler logs a fixed text instead of str(e).
HandleException_generic(id, e) ==
    /\ active_workflows' = _update_workflow(active_workflows, id, "failed",
                                            ErrorData("workflow failed"))
    /\ result' = [result EXCEPT ![id] = FailureResult(id, e)]
    /\ raised' = [raised EXCEPT ![id] = e]
    /\ frame' = [frame EXCEPT ![id] = NoFrame]
    /\ pc' = [pc EXCEPT ![id] = "returned"]

\* The handler of src/mcp_server.py:199-208
HandleException(id, e) ==
    /\ active_workflows' = _update_workflow(active_workflows, id, "failed", ErrorData(e))
    /\ result' = [result EXCEPT ![id] = FailureResult(id, e)]
    /\ raised' = [raised EXCEPT ![id] = e]
    /\ frame' = [frame EXCEPT ![id] = NoFrame]
    /\ pc' = [pc EXCEPT ![id] = "returned"]

\* A step that ends normally: record `updates` (a sequence of <<status, data>>)
\* and go on at `next`.
RECURSIVE ApplyUpdates(_, _, _)
ApplyUpdates(table, id, updates) ==
    IF updates = <<>> THEN table
    ELSE ApplyUpdates(_update_workflow(table, id, Head(updates)[1], Head(updates)[2]),
                      id, Tail(updates))

Continue(id, updates, next) ==
    /\ active_workflows' = ApplyUpdates(active_workflows, id, updates)
    /\ pc' = [pc EXCEPT ![id] = next]
    /\ UNCHANGED <<result, raised>>

\* src/mcp_server.py:39-56: the record is (re)created and the first step logged
Start(id) ==
    /\ NoRunInFlight
    /\ TotalRuns < MaxRuns
    /\ \E conversation \in Conversations :
         frame' = [frame EXCEPT ![id] = [NoFrame EXCEPT !.conversation = conversation]]
    /\ active_workflows' =
         _update_workflow([active_workflows EXCEPT ![id] = NewRecord],
                          id, "parsing_bug_report", NoData)
    /\ pc' = [pc EXCEPT ![id] = "parse"]
    /\ runs' = [runs EXCEPT ![id] = @ + 1]
    /\ calls' = [calls EXCEPT ![id] = <<>>]
    /\ raised' = [raised EXCEPT ![id] = NoExc]
    /\ result' = [result EXCEPT ![id] = NoResult]

\* not bug_report or not bug_report.get('title')
ReportUnusable(bug_report) ==
    \/ bug_report.keys = {}
    \/ "title" \notin bug_report.keys
    \/ bug_report.title = <<>>

\* src/mcp_server.py:58-71
ParseBugReport(id) ==
    /\ pc[id] = "parse"
    /\ \E llm \in LlmReportOutcomes :
         LET r == parse_bug_report(frame[id].conversation, llm) IN
         /\ calls' = [calls EXCEPT ![id] =
                        Append(@, Call("parse_bug_report", ~r.raised, r.err, ""))]
         /\ IF r.raised
            THEN HandleException(id, r.err)
            ELSE IF ReportUnusable(r.value)
            THEN HandleException(id, ParseFailureText)
            ELSE /\ Continue(id, <<<<"bug_report_parsed", TitleData(r.value.title)>>>>,
                             "similar")
                 /\ frame' = [frame EXCEPT ![id].bug_report = r.value,
                                           \* never read again
                                           ![id].conversation = <<>>]
    /\ UNCHANGED runs

\* Outcomes of jira.search_issues
SearchIssuesOutcomes == {Raised("boom", <<>>), Returned(<<"CCS-7">>)}

\* JiraTool.find_similar_issues: every failure gives the empty list
find_similar_issues(out) == IF out.raised THEN <<>> ELSE out.value

\* the failure of the search reaches the handler
FindSimilarIssues_fatal(id) ==
    /\ pc[id] = "similar"
    /\ \E out \in SearchIssuesOutcomes :
         /\ calls' = [calls EXCEPT ![id] =
                        Append(@, Call("search_issues", ~out.raised, out.err, ""))]
         /\ IF out.raised
            THEN HandleException(id, out.err)
            ELSE /\ frame' = [frame EXCEPT ![id].similar_issues = out.value]
                 /\ Continue(id, <<<<"analyzing_codebase", NoData>>>>, "context")
    /\ UNCHANGED runs

\* src/mcp_server.py:73-83, when jira.search_issues answers `out`
FindSimilarIssuesWith(id, out) ==
    /\ pc[id] = "similar"
    /\ frame' = [frame EXCEPT ![id].similar_issues = find_similar_issues(out)]
    /\ calls' = [calls EXCEPT ![id] =
                   Append(@, Call("search_issues", ~out.raised, out.err, ""))]
    \* src/mcp_server.py:83
    /\ Continue(id, <<<<"analyzing_codebase", NoData>>>>, "context")
    /\ UNCHANGED runs

\* src/mcp_server.py:73-83
FindSimilarIssues(id) ==
    \E out \in SearchIssuesOutcomes : FindSimilarIssuesWith(id, out)

(***************************************************************************)
(* Keyword extraction and code context (src/mcp_server.py:85-125).         *)
(***************************************************************************)
Stopwords ==
    { <<"t","h","e">>, <<"a","n","d">>, <<"f","o","r">>, <<"w","i","t","h">>,
      <<"f","r","o","m">>, <<"i","n","t","o">>, <<"w","h","e","n">>,
      <<"w","h","e","r","e">>, <<"t","h","i","s">>, <<"t","h","a","t">> }

MinWordLen == 3
MaxKeywords == 5

\* list.extend(x) for the value x of affected_components: a str is iterated
\* character by character, a dict key by key
ExtendWith(ac) ==
    IF ac.kind \in {"list", "dict"} THEN ac.items
    ELSE IF ac.kind = "str" THEN [i \in 1..Len(ac.items[1]) |-> <<ac.items[1][i]>>]
    ELSE <<>>

\* the extractor without its None guard: extend(None) raises
_extract_keywords_unguarded(bug_report) ==
    LET ac == IF "affected_components" \in bug_report.keys
              THEN bug_report.affected_components
              ELSE ACList(<<>>)
    IN IF ac.kind = "null"
       THEN Raised("'NoneType' object is not iterable", <<>>)
       ELSE Returned(Take(ExtendWith(ac), MaxKeywords))

\* the extractor without its stop-word filter
_extract_keywords_unfiltered(bug_report) ==
    LET LongWord(w) == Len(w) > MinWordLen
        from_title == IF "title" \in bug_report.keys /\ bug_report.title # <<>>
                      THEN SelectSeq(Split(bug_report.title), LongWord)
                      ELSE <<>>
        ac == IF "affected_components" \in bug_report.keys
              THEN bug_report.affected_components
              ELSE ACList(<<>>)
    IN IF ac.kind \in {"number", "list_of_numbers"}
       THEN Raised("'int' object is not iterable", <<>>)
       ELSE Returned(Take(from_title \o ExtendWith(ac), MaxKeywords))

\* MCPServer._extract_keywords
_extract_keywords(bug_report) ==
    LET LongWord(w) == Len(w) > MinWordLen
        NotStopword(k) == Lower(k) \notin Stopwords
        from_title == IF "title" \in bug_report.keys /\ bug_report.title # <<>>
                      THEN SelectSeq(Split(bug_report.title), LongWord)
                      ELSE <<>>
        ac == IF "affected_components" \in bug_report.keys
              THEN bug_report.affected_components
              ELSE ACList(<<>>)
    IN IF ac.kind = "number"
       THEN Raised("'int' object is not iterable", <<>>)
       ELSE IF ac.kind = "list_of_numbers"
       THEN Raised("'int' object has no attribute 'lower'", <<>>)
       ELSE Returned(Take(SelectSeq(from_title \o ExtendWith(ac), NotStopword), MaxKeywords))

\* src/mcp_server.py:88-92
KeywordsWithComponents(keywords, bug_report) ==
    LET ac == IF "affected_components" \in bug_report.keys
              THEN bug_report.affected_components
              ELSE ACNull
    IN IF ac.kind = "str" THEN Append(keywords, ac.items[1])
       ELSE IF ac.kind = "list" THEN keywords \o ac.items
       ELSE keywords

\* The source host: what search_code and get_contents answer.
Paths == {"src/App.tsx", "src/auth.ts"}
SizeLimit == 200000
SearchCodeOutcomes == {Raised("boom", <<>>), Returned(<<"src/App.tsx", "src/auth.ts">>)}
GetContentsOutcomes == {Raised("boom", 0), Returned(1000), Returned(SizeLimit)}
Strategies == {"filename", "component", "text", "fallback"}
SearchEnvs == [search : [Strategies -> SearchCodeOutcomes],
               fetch : [Paths -> GetContentsOutcomes]]

S_tsx == <<".","t","s","x">>
S_ts == <<".","t","s">>
S_jsx == <<".","j","s","x">>

\* the search_queries list of src/tools/github_tool.py:424-442
SearchQueries(keywords) ==
    LET Primary(k) == Len(k) > 3 /\ IsUpperChar(k[1])
        FileLike(k) == Contains(k, S_tsx) \/ Contains(k, S_ts) \/ Contains(k, S_jsx)
    IN (IF SelectSeq(keywords, FileLike) # <<>> THEN <<"filename">> ELSE <<>>)
       \o (IF SelectSeq(keywords, Primary) # <<>> THEN <<"component">> ELSE <<>>)
       \o (IF keywords # <<>> THEN <<"text">> ELSE <<>>)
       \o <<"fallback">>

\* the inner loop over the results of one query, without the seen_paths test
RECURSIVE CollectResults_unseen(_, _, _, _)
CollectResults_unseen(results, files, max_files, env) ==
    IF results = <<>> \/ Len(files) >= max_files THEN files
    ELSE LET path == Head(results)
             got == env.fetch[path]
         IN CollectResults_unseen(Tail(results),
                IF got.raised \/ ~(got.value < SizeLimit)
                THEN files
                ELSE Append(files, [path |-> path, size |-> got.value]),
                max_files, env)

\* the inner loop over the results of one query
RECURSIVE CollectResults(_, _, _, _)
CollectResults(results, files, max_files, env) ==
    IF results = <<>> \/ Len(files) >= max_files THEN files
    ELSE LET path == Head(results)
             got == env.fetch[path]
             seen == {files[i].path : i \in 1..Len(files)}
         IN CollectResults(Tail(results),
                IF path \in seen \/ got.raised \/ ~(got.value < SizeLimit)
                THEN files
                ELSE Append(files, [path |-> path, size |-> got.value]),
                max_files, env)

\* The loop over the queries.  `st` holds relevant_files and, for the record,
\* the search_code calls made so far, each with the number of files
\* collected when it was made.
RECURSIVE RunQueries(_, _, _, _)
RunQueries(queries, st, max_files, env) ==
    IF queries = <<>> \/ Len(st.files) >= max_files THEN st
    ELSE LET found == env.search[Head(queries)]
             after == [files |-> IF found.raised THEN st.files
                                 ELSE CollectResults(found.value, st.files, max_files, env),
                       queries |-> Append(st.queries, [query |-> Head(queries),
                                                       collected |-> Len(st.files)])]
         \* the state after this query is computed once, then the loop goes on
         IN CHOOSE done \in {RunQueries(Tail(queries), s, max_files, env) : s \in {after}} :
                TRUE

\* the body of GitHubTool.get_relevant_files: the files and the searches made
SearchRepository(keywords, max_files, env) ==
    RunQueries(SearchQueries(keywords), [files |-> <<>>, queries |-> <<>>],
               max_files, env)

\* GitHubTool.get_relevant_files: never raises
get_relevant_files(keywords, max_files, env) ==
    SearchRepository(keywords, max_files, env).files

\* Parts of the code context string, joined by blank lines in the code.
ContextPart(tag, name, path) == [tag |-> tag, name |-> name, path |-> path]
NoContextFound == <<ContextPart("No specific code context found", <<>>, "")>>

ComponentFetchOutcomes == {"raise", "small", "large"}
ComponentSearchOutcomes == {Raised("boom", <<>>), Returned(<<>>), Returned(<<"src/App.tsx">>)}
ComponentEnvs == [fetch : ComponentFetchOutcomes, search : ComponentSearchOutcomes]

MaxComponents == 5
MaxReferences == 2

\* the body of the loop of analyze_codebase_context for one component
ComponentContext(component, env) ==
    (IF Contains(component, <<".">>) /\ env.fetch = "small"
     THEN <<ContextPart("file", component, "")>> ELSE <<>>)
    \o (IF env.search.raised THEN <<>>
        ELSE LET refs == Take(env.search.value, MaxReferences)
             IN [i \in 1..Len(refs) |-> ContextPart("reference", <<>>, refs[i])])

\* GitHubTool.analyze_codebase_context: affected_components[:5] is outside
\* the try of the loop and raises for a dict
analyze_codebase_context(ac, env) ==
    LET components == Take(ExtendWith(ac), MaxComponents)
        parts == Concat([i \in 1..Len(components) |-> ComponentContext(components[i], env)])
    IN IF ac.kind = "dict" THEN Raised("unhashable type: 'slice'", <<>>)
       ELSE Returned(IF parts # <<>> THEN parts ELSE NoContextFound)

MaxFiles == 5
TopFiles == 3

\* src/mcp_server.py:99-125
BuildCodeContext(bug_report, relevant_files, env) ==
    LET ac == IF "affected_components" \in bug_report.keys
              THEN bug_report.affected_components
              ELSE ACList(<<>>)
        specific == analyze_codebase_context(ac, env)
        top == Take(relevant_files, TopFiles)
    IN IF relevant_files # <<>>
       THEN [i \in 1..Len(top) |-> ContextPart("complete file", <<>>, top[i].path)]
       \* src/mcp_server.py:105-109: code_context = ""
       ELSE IF specific.raised THEN <<>>
       ELSE specific.value

\* src/mcp_server.py:81-97, when the source host answers as `env` says
AnalyzeCodebaseWith(id, env) ==
    /\ pc[id] = "context"
    /\ LET kw == _extract_keywords(frame[id].bug_report) IN
       IF kw.raised
       THEN HandleException(id, kw.err)
       ELSE LET keywords == KeywordsWithComponents(kw.value, frame[id].bug_report) IN
            /\ frame' = [frame EXCEPT ![id].relevant_files =
                              get_relevant_files(keywords, MaxFiles, env)]
            /\ Continue(id, <<>>, "assemble")
    /\ UNCHANGED <<calls, runs>>

\* src/mcp_server.py:81-97: keywords and the file search
AnalyzeCodebase(id) ==
    \E env \in SearchEnvs : AnalyzeCodebaseWith(id, env)

\* src/mcp_server.py:99-129, when the source host answers as `env` says
AssembleContextWith(id, env) ==
    /\ pc[id] = "assemble"
    /\ frame' = [frame EXCEPT
                   ![id].code_context =
                       BuildCodeContext(frame[id].bug_report,
                                        frame[id].relevant_files, env),
                   \* never read again
                   ![id].relevant_files = <<>>]
    /\ Continue(id, <<<<"generating_fix", NoData>>>>, "generate")
    /\ UNCHANGED <<calls, runs>>

\* src/mcp_server.py:99-129: the context string
AssembleContext(id) ==
    \E env \in ComponentEnvs : AssembleContextWith(id, env)

(***************************************************************************)
(* Fix proposal (src/mcp_server.py:127-146).                               *)
(***************************************************************************)
FileChange(file, changes) == [file |-> file, changes |-> changes]

FullContent == "export const App = () => null"
PatchContent == "@@ -2,1 +2,1 @@\n-old\n+new"

FixKeys == {"root_cause", "fix_description", "code_changes", "testing_notes"}

\* JSON objects the language model may answer with
LlmFixes ==
    { Fix({}, "", "list", <<>>),
      Fix(FixKeys, "null deref", "null", <<>>),
      Fix(FixKeys, "null deref", "list", <<>>),
      Fix(FixKeys, "null deref", "list",
          <<FileChange("", FullContent), FileChange("src/App.tsx", FullContent),
            FileChange("src/auth.ts", PatchContent)>>) }

LlmFixOutcomes ==
    {[kind |-> "error", value |-> NoFix]}
    \cup {[kind |-> "json", value |-> f] : f \in LlmFixes}

\* the dict returned at src/services/anthropic_service.py:190
FallbackFix == Fix(FixKeys, "Analysis needed", "list", <<>>)

\* the dict assigned at src/mcp_server.py:139
ManualFix == Fix(FixKeys, "Manual analysis required", "list", <<>>)

\* fix.get('code_changes', [])
GetCodeChanges(fix) ==
    IF "code_changes" \in fix.keys THEN fix.code_changes
    ELSE [kind |-> "list", items |-> <<>>]

\* AnthropicService.generate_code_fix: len() of a null code_changes raises
\* inside its try block, so that answer ends in the fallback too
generate_code_fix(bug_report, code_context, llm) ==
    IF llm.kind = "json" /\ GetCodeChanges(llm.value).kind = "list"
    THEN Returned(llm.value)
    ELSE Returned(FallbackFix)

\* the fix the orchestrator goes on with (src/mcp_server.py:131-144)
FixOrManual(r) ==
    IF r.raised \/ r.value.keys = {} THEN ManualFix ELSE r.value

\* the transitions logged at src/mcp_server.py:146-150
FixUpdates_swapped(fix) ==
    << <<"creating_jira_ticket", NoData>>,
       <<"fix_generated", FilesData(Len(GetCodeChanges(fix).items))>> >>

FixUpdates(fix) ==
    << <<"fix_generated", FilesData(Len(GetCodeChanges(fix).items))>>,
       <<"creating_jira_ticket", NoData>> >>

\* what the language model answered, for the call log
FixAnswer(llm) ==
    IF llm.kind # "json" THEN llm.kind
    ELSE IF llm.value.keys = {} THEN "empty_object"
    ELSE IF GetCodeChanges(llm.value).kind # "list" THEN "null_changes"
    ELSE "proposal"

\* the orchestrator aborts when no fix comes back
GenerateFix_abort(id) ==
    /\ pc[id] = "generate"
    /\ \E llm \in LlmFixOutcomes :
         LET r == generate_code_fix(frame[id].bug_report, frame[id].code_context, llm)
             fix == FixOrManual(r)
         IN /\ calls' = [calls EXCEPT ![id] =
                           Append(@, Call("generate_code_fix", llm.kind = "json", "", FixAnswer(llm)))]
            /\ IF llm.kind # "json"
               THEN HandleException(id, "no fix")
               ELSE /\ frame' = [frame EXCEPT ![id].fix = fix, ![id].code_context = <<>>]
                    /\ Continue(id, FixUpdates(fix), "ticket")
    /\ UNCHANGED runs

\* src/mcp_server.py:131-150, when the language model answers `llm`
GenerateFixWith(id, llm) ==
    /\ pc[id] = "generate"
    /\ LET r == generate_code_fix(frame[id].bug_report, frame[id].code_context, llm)
           fix == FixOrManual(r)
       IN /\ calls' = [calls EXCEPT ![id] =
                         Append(@, Call("generate_code_fix", llm.kind = "json", "", FixAnswer(llm)))]
          /\ IF GetCodeChanges(fix).kind # "list"
             THEN HandleException(id, "object of type 'NoneType' has no len()")
             ELSE /\ frame' = [frame EXCEPT ![id].fix = fix,
                                            \* never read again
                                            ![id].code_context = <<>>]
                  /\ Continue(id, FixUpdates(fix), "ticket")
    /\ UNCHANGED runs

\* src/mcp_server.py:131-150
GenerateFix(id) ==
    \E llm \in LlmFixOutcomes : GenerateFixWith(id, llm)

(***************************************************************************)
(* Ticket, branch, changes, pull request (src/mcp_server.py:148-182).      *)
(***************************************************************************)
IssueKey == "CCS-1"
CreateIssueOutcomes == {Raised(e, "") : e \in ExcTexts} \cup {Returned(IssueKey)}

\* JiraTool.create_ticket: the failure of create_issue is re-raised
create_ticket(bug_report, out) == out

\* the PR segment is entered whatever the proposal holds
HasCodeChanges_always(fix) == TRUE

\* fix and fix.get('code_changes')
HasCodeChanges(fix) == fix.keys # {} /\ GetCodeChanges(fix).items # <<>>

\* no ticket is created when the search found similar issues
CreateTicketWith_dedup(id, out) ==
    /\ pc[id] = "ticket"
    /\ IF frame[id].similar_issues # <<>>
       THEN /\ Continue(id, <<>>, "complete")
            /\ UNCHANGED <<calls, frame>>
       ELSE LET r == create_ticket(frame[id].bug_report, out) IN
            /\ calls' = [calls EXCEPT ![id] =
                           Append(@, Call("create_issue", ~r.raised, r.err, ""))]
            /\ IF r.raised
               THEN HandleException(id, r.err)
               ELSE /\ frame' = [frame EXCEPT ![id].issue_key = r.value]
                    /\ IF HasCodeChanges(frame[id].fix)
                       THEN Continue(id, <<<<"jira_ticket_created", IssueData(r.value)>>,
                                           <<"creating_pr", NoData>>>>, "branch")
                       ELSE Continue(id, <<<<"jira_ticket_created", IssueData(r.value)>>>>,
                                     "comment_manual")
    /\ UNCHANGED runs

\* the failure of create_ticket is logged and the run goes on without a key
CreateTicket_swallow(id) ==
    /\ pc[id] = "ticket"
    /\ \E out \in CreateIssueOutcomes :
         LET r == create_ticket(frame[id].bug_report, out) IN
         /\ calls' = [calls EXCEPT ![id] = Append(@, Call("create_issue", ~r.raised, r.err, ""))]
         /\ frame' = [frame EXCEPT ![id].issue_key = r.value]
         /\ IF HasCodeChanges(frame[id].fix)
            THEN Continue(id, <<<<"jira_ticket_created", IssueData(r.value)>>,
                                <<"creating_pr", NoData>>>>, "branch")
            ELSE Continue(id, <<<<"jira_ticket_created", IssueData(r.value)>>>>,
                          "comment_manual")
    /\ UNCHANGED runs

\* src/mcp_server.py:152-161, when jira.create_issue answers `out`
CreateTicketWith(id, out) ==
    /\ pc[id] = "ticket"
    /\ LET r == create_ticket(frame[id].bug_report, out) IN
       /\ calls' = [calls EXCEPT ![id] = Append(@, Call("create_issue", ~r.raised, r.err, ""))]
       /\ IF r.raised
          THEN HandleException(id, r.err)
          ELSE /\ frame' = [frame EXCEPT ![id].issue_key = r.value]
               /\ IF HasCodeChanges(frame[id].fix)
                  THEN Continue(id, <<<<"jira_ticket_created", IssueData(r.value)>>,
                                      <<"creating_pr", NoData>>>>, "branch")
                  ELSE Continue(id, <<<<"jira_ticket_created", IssueData(r.value)>>>>,
                                "comment_manual")
    /\ UNCHANGED runs

\* src/mcp_server.py:152-161
CreateTicket(id) ==
    \E out \in CreateIssueOutcomes : CreateTicketWith(id, out)

\* Outcomes of the two create_git_ref calls: success, 422 conflict, other failure
BranchName == "fix/ccs-1-login-with-form"
SuffixedBranchName == "fix/ccs-1-login-with-form-1700000000"
ConflictStatus == 422
GitRefOutcomes == {[status |-> 201, err |-> NoExc],
                   [status |-> ConflictStatus, err |-> "422 already exists"],
                   [status |-> 500, err |-> "boom"]}

\* the branch creation retried after any failure, not only after a conflict
create_fix_branch_retry_any(first, second) ==
    IF first.err = NoExc
    THEN <<Returned(BranchName), <<Call("create_git_ref", TRUE, NoExc, BranchName)>> >>
    ELSE IF second.err = NoExc
    THEN <<Returned(SuffixedBranchName),
           <<Call("create_git_ref", FALSE, first.err, BranchName),
             Call("create_git_ref", TRUE, NoExc, SuffixedBranchName)>> >>
    ELSE <<Raised(second.err, ""),
           <<Call("create_git_ref", FALSE, first.err, BranchName),
             Call("create_git_ref", FALSE, second.err, SuffixedBranchName)>> >>

\* GitHubTool.create_fix_branch: <<outcome, calls made>>
create_fix_branch(first, second) ==
    IF first.err = NoExc
    THEN <<Returned(BranchName), <<Call("create_git_ref", TRUE, NoExc, BranchName)>> >>
    ELSE IF first.status = ConflictStatus
    THEN IF second.err = NoExc
         THEN <<Returned(SuffixedBranchName),
                <<Call("create_git_ref", FALSE, first.err, BranchName),
                  Call("create_git_ref", TRUE, NoExc, SuffixedBranchName)>> >>
         ELSE <<Raised(second.err, ""),
                <<Call("create_git_ref", FALSE, first.err, BranchName),
                  Call("create_git_ref", FALSE, second.err, SuffixedBranchName)>> >>
    ELSE <<Raised(first.err, ""), <<Call("create_git_ref", FALSE, first.err, BranchName)>> >>

\* src/mcp_server.py:163, when the two create_git_ref calls answer as `refs`
CreateBranchWith(id, refs) ==
    /\ pc[id] = "branch"
    /\ LET b == create_fix_branch(refs[1], refs[2]) IN
       /\ calls' = [calls EXCEPT ![id] = @ \o b[2]]
       /\ IF b[1].raised
          THEN HandleException(id, b[1].err)
          ELSE /\ frame' = [frame EXCEPT ![id].branch_name = b[1].value]
               /\ Continue(id, <<>>, "apply")
    /\ UNCHANGED runs

\* src/mcp_server.py:163
CreateBranch(id) ==
    \E refs \in GitRefOutcomes \X GitRefOutcomes : CreateBranchWith(id, refs)

\* What the source host does for one change: the file exists and is updated,
\* it is missing and is created, or it is missing and cannot be created.
ChangeOutcomes == {"updated", "created", "failed"}

\* the loop of GitHubTool.apply_code_changes: <<return value, calls made>>
RECURSIVE ApplyChanges(_, _, _)
ApplyChanges(changes, outcome, made) ==
    IF changes = <<>> THEN <<TRUE, made>>
    ELSE LET c == Head(changes) IN
         IF c.file = "" \/ c.changes = ""
         THEN ApplyChanges(Tail(changes), outcome, made)
         ELSE IF outcome[c.file] = "updated"
         THEN ApplyChanges(Tail(changes), outcome,
                           Append(made, Write("update_file", TRUE, NoExc, c.file, c.changes)))
         ELSE IF outcome[c.file] = "created"
         THEN ApplyChanges(Tail(changes), outcome,
                           Append(made, Write("create_file", TRUE, NoExc, c.file, c.changes)))
         ELSE <<FALSE, Append(made, Write("create_file", FALSE, "boom", c.file, c.changes))>>

\* GitHubTool.apply_code_changes
apply_code_changes(branch_name, code_changes, outcome) ==
    IF code_changes = <<>> THEN <<FALSE, <<>> >>
    ELSE ApplyChanges(code_changes, outcome, <<>>)

\* the pull request is opened whatever apply_code_changes returned
ApplyCodeChangesWith_unchecked(id, outcome) ==
    /\ pc[id] = "apply"
    /\ LET a == apply_code_changes(frame[id].branch_name,
                                   GetCodeChanges(frame[id].fix).items, outcome) IN
       /\ calls' = [calls EXCEPT ![id] = @ \o a[2]]
       /\ Continue(id, <<>>, "pull_request")
    /\ UNCHANGED <<frame, runs>>

\* src/mcp_server.py:165, when the source host treats the files as `outcome` says
ApplyCodeChangesWith(id, outcome) ==
    /\ pc[id] = "apply"
    /\ LET a == apply_code_changes(frame[id].branch_name,
                                   GetCodeChanges(frame[id].fix).items, outcome) IN
       /\ calls' = [calls EXCEPT ![id] = @ \o a[2]]
       /\ Continue(id, <<>>, IF a[1] THEN "pull_request" ELSE "complete")
    /\ UNCHANGED <<frame, runs>>

\* src/mcp_server.py:165
ApplyCodeChanges(id) ==
    \E outcome \in [Paths -> ChangeOutcomes] : ApplyCodeChangesWith(id, outcome)

\* Outcomes of repo.create_pull: html_url is whatever the host answered
PrUrl == "https://github.com/o/r/pull/1"
CreatePullOutcomes == {Raised("boom", ""), Returned(PrUrl), Returned("")}

\* GitHubTool.create_pull_request: failures are re-raised
create_pull_request(out) == out

\* src/mcp_server.py:166-173, when repo.create_pull answers `out`
CreatePullRequestWith(id, out) ==
    /\ pc[id] = "pull_request"
    /\ LET r == create_pull_request(out) IN
       /\ calls' = [calls EXCEPT ![id] =
                      Append(@, Write("create_pull", ~r.raised, r.err,
                                      frame[id].branch_name, r.value))]
       /\ IF r.raised
          THEN HandleException(id, r.err)
          ELSE /\ frame' = [frame EXCEPT ![id].pr_url = r.value]
               /\ Continue(id, <<>>, IF r.value # "" THEN "comment_pr" ELSE "complete")
    /\ UNCHANGED runs

\* src/mcp_server.py:166-173
CreatePullRequest(id) ==
    \E out \in CreatePullOutcomes : CreatePullRequestWith(id, out)

\* JiraTool.add_comment: failures are swallowed
AddCommentOutcomes == {Raised("boom", ""), Returned("")}
add_comment(text, out) == Call("add_comment", ~out.raised, out.err, text)

PrComment == "Pull Request created"
ManualComment == "No automated fix generated. Manual investigation required."

\* the comment is posted but the transition is not logged
CommentPullRequest_unlogged(id) ==
    /\ pc[id] = "comment_pr"
    /\ \E out \in AddCommentOutcomes :
         calls' = [calls EXCEPT ![id] = Append(@, add_comment(PrComment, out))]
    /\ Continue(id, <<>>, "complete")
    /\ UNCHANGED <<frame, runs>>

\* src/mcp_server.py:174-176, when jira.add_comment answers `out`
CommentPullRequestWith(id, out) ==
    /\ pc[id] = "comment_pr"
    /\ calls' = [calls EXCEPT ![id] = Append(@, add_comment(PrComment, out))]
    /\ Continue(id, <<<<"pr_created", PrData(frame[id].pr_url)>>>>, "complete")
    /\ UNCHANGED <<frame, runs>>

\* src/mcp_server.py:174-176
CommentPullRequest(id) ==
    \E out \in AddCommentOutcomes : CommentPullRequestWith(id, out)

\* src/mcp_server.py:177-179, when jira.add_comment answers `out`
CommentManualWith(id, out) ==
    /\ pc[id] = "comment_manual"
    /\ calls' = [calls EXCEPT ![id] = Append(@, add_comment(ManualComment, out))]
    /\ Continue(id, <<>>, "complete")
    /\ UNCHANGED <<frame, runs>>

\* src/mcp_server.py:177-179
CommentManual(id) ==
    \E out \in AddCommentOutcomes : CommentManualWith(id, out)

\* building the result raises after 'completed' was logged
Complete_raises(id) ==
    /\ pc[id] = "complete"
    /\ active_workflows' =
         _update_workflow(_update_workflow(active_workflows, id, "completed", NoData),
                          id, "failed", ErrorData("boom"))
    /\ result' = [result EXCEPT ![id] = FailureResult(id, "boom")]
    /\ raised' = [raised EXCEPT ![id] = "boom"]
    /\ pc' = [pc EXCEPT ![id] = "returned"]
    /\ frame' = [frame EXCEPT ![id] = NoFrame]
    /\ UNCHANGED <<calls, runs>>

\* src/mcp_server.py:181-197
Complete(id) ==
    /\ pc[id] = "complete"
    /\ active_workflows' = _update_workflow(active_workflows, id, "completed", NoData)
    /\ result' = [result EXCEPT ![id] = SuccessResult(id, frame[id])]
    /\ pc' = [pc EXCEPT ![id] = "returned"]
    /\ frame' = [frame EXCEPT ![id] = NoFrame]
    /\ UNCHANGED <<calls, raised, runs>>


\* Ids asked for by `status <workflow_id>`: the two threads and an id no run
\* ever had
StatusIds == WorkflowIds \cup {"C9_999"}

\* src/slack_bot.py:198: the direct-message handler reads the table.  The
\* handler is on the event loop, so no run is in flight while it reads.
GetWorkflowStatus(workflow_id) ==
    /\ NoRunInFlight
    /\ fn_call = NoFnCall
    /\ fn_call' = [NoFnCall EXCEPT !.fn = "get_workflow_status",
                                   !.workflow_id = workflow_id]
    /\ fn_return' = get_workflow_status(active_workflows, workflow_id)
    /\ UNCHANGED <<run_vars, bot_vars, answer>>

\* src/slack_bot.py:199-202: the handler formats its answer from the value
\* without giving up the event loop in between
StatusAnswered ==
    /\ fn_call.fn = "get_workflow_status"
    /\ fn_call' = NoFnCall
    /\ fn_return' = Pending
    /\ UNCHANGED <<run_vars, bot_vars, answer>>

\* The caller takes the returned value; the coroutine's frame is gone.
Return(id) ==
    /\ pc[id] = "returned"
    /\ pc' = [pc EXCEPT ![id] = "idle"]
    /\ frame' = [frame EXCEPT ![id] = NoFrame]
    /\ calls' = [calls EXCEPT ![id] = <<>>]
    /\ raised' = [raised EXCEPT ![id] = NoExc]
    /\ result' = [result EXCEPT ![id] = NoResult]
    /\ UNCHANGED <<active_workflows, runs>>

Next ==
    \/ \E id \in WorkflowIds :
        \/ fn_call = NoFnCall /\ Start(id) /\ UNCHANGED <<fn_vars, bot_vars, answer>>
        \/ ParseBugReport(id) /\ UNCHANGED <<fn_vars, bot_vars, answer>>
        \/ FindSimilarIssues(id) /\ UNCHANGED <<fn_vars, bot_vars, answer>>
        \/ AnalyzeCodebase(id) /\ UNCHANGED <<fn_vars, bot_vars, answer>>
        \/ AssembleContext(id) /\ UNCHANGED <<fn_vars, bot_vars, answer>>
        \/ GenerateFix(id) /\ UNCHANGED <<fn_vars, bot_vars, answer>>
        \/ CreateTicket(id) /\ UNCHANGED <<fn_vars, bot_vars, answer>>
        \/ CreateBranch(id) /\ UNCHANGED <<fn_vars, bot_vars, answer>>
        \/ ApplyCodeChanges(id) /\ UNCHANGED <<fn_vars, bot_vars, answer>>
        \/ CreatePullRequest(id) /\ UNCHANGED <<fn_vars, bot_vars, answer>>
        \/ CommentPullRequest(id) /\ UNCHANGED <<fn_vars, bot_vars, answer>>
        \/ CommentManual(id) /\ UNCHANGED <<fn_vars, bot_vars, answer>>
        \/ Complete(id) /\ UNCHANGED <<fn_vars, bot_vars, answer>>
        \/ Return(id) /\ UNCHANGED <<fn_vars, bot_vars, answer>>
    \/ \E workflow_id \in StatusIds : GetWorkflowStatus(workflow_id)
    \/ StatusAnswered

Spec == Init /\ [][Next]_vars

(***************************************************************************)
(* The patch engine: GitHubTool._apply_diff_to_content.  Texts are         *)
(* sequences of characters; "\n" is the only line boundary in the texts    *)
(* of the model.                                                           *)
(***************************************************************************)
NL == "\n"

Min(a, b) == IF a <= b THEN a ELSE b
Max(a, b) == IF a >= b THEN a ELSE b

\* s.startswith(prefix)
StartsWith(s, prefix) == Len(s) >= Len(prefix) /\ SubSeq(s, 1, Len(prefix)) = prefix

\* s[1:]
DropFirst(s) == IF s = <<>> THEN <<>> ELSE Tail(s)

\* str.splitlines(): a final newline does not open another line
RECURSIVE SplitLinesFrom(_, _, _)
SplitLinesFrom(s, cur, acc) ==
    IF s = <<>>
    THEN IF cur = <<>> THEN acc ELSE Append(acc, cur)
    ELSE IF Head(s) = NL
         THEN SplitLinesFrom(Tail(s), <<>>, Append(acc, cur))
         ELSE SplitLinesFrom(Tail(s), Append(cur, Head(s)), acc)

SplitLines(s) == SplitLinesFrom(s, <<>>, <<>>)

\* s.split(',')[0]
RECURSIVE BeforeComma(_)
BeforeComma(s) ==
    IF s = <<>> \/ Head(s) = "," THEN <<>>
    ELSE <<Head(s)>> \o BeforeComma(Tail(s))

DigitChars == <<"0","1","2","3","4","5","6","7","8","9">>
IsDigit(c) == \E i \in 1..Len(DigitChars) : DigitChars[i] = c
DigitValue(c) == (CHOOSE i \in 1..Len(DigitChars) : DigitChars[i] = c) - 1

\* int(s) succeeds on a run of decimal digits; on the empty string and on a
\* string with any other character (none of the model's range fields has a
\* sign, blank or underscore) it raises ValueError
IsNumber(s) == s # <<>> /\ \A i \in 1..Len(s) : IsDigit(s[i])

RECURSIVE IntFrom(_, _)
IntFrom(s, acc) ==
    IF s = <<>> THEN acc ELSE IntFrom(Tail(s), acc * Len(DigitChars) + DigitValue(Head(s)))

IntOf(s) == IntFrom(s, 0)
IntError == "invalid literal for int() with base 10"

\* the dict built at src/tools/github_tool.py:150
Hunk(old_start, new_start, changes) ==
    [old_start |-> old_start, new_start |-> new_start, changes |-> changes]

IsAddition(line) == StartsWith(line, <<"+">>)
IsRemoval(line) == StartsWith(line, <<"-">>)
IsContext(line) == StartsWith(line, <<" ">>)

\* the loop of src/tools/github_tool.py:139-157; current_hunk is the last
\* element of hunks once one exists
RECURSIVE ParseHunks(_, _)
ParseHunks(diff_lines, hunks) ==
    IF diff_lines = <<>> THEN Returned(hunks)
    ELSE LET line == Head(diff_lines) IN
         IF StartsWith(line, <<"@", "@">>)
         THEN LET parts == Split(line) IN
              IF Len(parts) >= 2
              THEN LET old_range == parts[2]
                       new_range == IF Len(parts) > 2 THEN parts[3] ELSE old_range
                       old_field == DropFirst(BeforeComma(old_range))
                       new_field == DropFirst(BeforeComma(new_range))
                   IN IF ~IsNumber(old_field) \/ ~IsNumber(new_field)
                      THEN Raised(IntError, <<>>)
                      ELSE ParseHunks(Tail(diff_lines),
                               Append(hunks, Hunk(IntOf(old_field) - 1,
                                                  IntOf(new_field) - 1, <<>>)))
              ELSE ParseHunks(Tail(diff_lines), hunks)
         ELSE IF hunks # <<>> /\ (IsAddition(line) \/ IsRemoval(line) \/ IsContext(line))
         THEN ParseHunks(Tail(diff_lines),
                         [hunks EXCEPT ![Len(hunks)].changes = Append(@, line)])
         ELSE ParseHunks(Tail(diff_lines), hunks)

\* a list index as Python resolves it: a negative one counts from the end,
\* and what falls outside the list is brought to its nearer end
PyIndex(lines, idx) ==
    IF idx < 0 THEN Max(idx + Len(lines), 0) ELSE Min(idx, Len(lines))

\* del lines[from:to]
DeleteSlice(lines, from, to) ==
    LET a == PyIndex(lines, from)
        b == Max(a, PyIndex(lines, to))
    IN SubSeq(lines, 1, a) \o SubSeq(lines, b + 1, Len(lines))

\* lines.insert(idx, x): past the end it appends
InsertAt(lines, idx, x) ==
    LET at == PyIndex(lines, idx)
    IN SubSeq(lines, 1, at) \o <<x>> \o SubSeq(lines, at + 1, Len(lines))

\* for i, new_line in enumerate(new_lines): result_lines.insert(old_start + i, new_line)
RECURSIVE InsertAll(_, _, _, _)
InsertAll(lines, old_start, new_lines, i) ==
    IF i >= Len(new_lines) THEN lines
    ELSE InsertAll(InsertAt(lines, old_start + i, new_lines[i + 1]),
                   old_start, new_lines, i + 1)

\* the body of the loop of src/tools/github_tool.py:167-190
ApplyHunk(result_lines, hunk) ==
    LET changes == hunk.changes
        lines_to_remove == Len(SelectSeq(changes, IsRemoval))
        end_idx == Min(hunk.old_start + lines_to_remove, Len(result_lines))
        kept == IF lines_to_remove > 0
                THEN DeleteSlice(result_lines, hunk.old_start, end_idx)
                ELSE result_lines
        Inserted(line) == IsAddition(line) \/ IsContext(line)
        tagged == SelectSeq(changes, Inserted)
        new_lines == [i \in 1..Len(tagged) |-> DropFirst(tagged[i])]
    IN InsertAll(kept, hunk.old_start, new_lines, 0)

\* the hunks applied in the order of listing
RECURSIVE ApplyReversed_forward(_, _)
ApplyReversed_forward(result_lines, hunks) ==
    IF hunks = <<>> THEN result_lines
    ELSE ApplyReversed_forward(ApplyHunk(result_lines, Head(hunks)), Tail(hunks))

\* for hunk in reversed(hunks)
RECURSIVE ApplyReversed(_, _)
ApplyReversed(result_lines, hunks) ==
    IF hunks = <<>> THEN result_lines
    ELSE ApplyReversed(ApplyHunk(result_lines, hunks[Len(hunks)]),
                       SubSeq(hunks, 1, Len(hunks) - 1))

\* the engine without its early returns: the text always goes through
\* splitlines and join
_apply_diff_to_content_rejoin(original, diff) ==
    LET parsed == ParseHunks(SplitLines(diff), <<>>)
    IN IF parsed.raised THEN Raised(parsed.err, <<>>)
       ELSE Returned(Join(<<NL>>, ApplyReversed(SplitLines(original), parsed.value)))

\* GitHubTool._apply_diff_to_content
_apply_diff_to_content(original, diff) ==
    IF diff = <<>> \/ original = <<>> THEN Returned(original)
    ELSE LET parsed == ParseHunks(SplitLines(diff), <<>>)
         IN IF parsed.raised THEN Raised(parsed.err, <<>>)
            ELSE IF parsed.value = <<>> THEN Returned(original)
            ELSE LET joined == Join(<<NL>>, ApplyReversed(SplitLines(original),
                                                          parsed.value))
                 IN IF joined # original THEN Returned(joined) ELSE Returned(original)

(***************************************************************************)
(* Direct calls of the pure functions: the arguments are drawn from        *)
(* bounded sets in the initial state and one action per function applies   *)
(* it.                                                                     *)
(***************************************************************************)
MaxHunkStart == 4
MaxHunkCount == 2

FnCall(fn, conversation, llm, bug_report, original, diff) ==
    [NoFnCall EXCEPT !.fn = fn, !.conversation = conversation, !.llm = llm,
                     !.bug_report = bug_report, !.original = original,
                     !.diff = diff]

\* a thread whose transcript is longer than the description limit
S_long == [i \in 1..(DescriptionLimit + 20) |-> "x"]

FnConversations == Conversations \cup { <<Msg(S_alice, S_long)>> }

ParseCalls ==
    { FnCall("parse_bug_report", c, llm, NoReport, <<>>, <<>>) :
        c \in FnConversations, llm \in LlmReportOutcomes }

T_Long == <<"F","i","x"," ","T","h","i","s"," ","F","R","O","M"," ",
            "L","o","g","i","n"," ","P","a","g","e"," ",
            "E","r","r","o","r"," ","H","a","n","d","l","e","r"," ",
            "M","o","d","u","l","e"," ","C","r","a","s","h">>
C_The == <<"T","h","e">>
C_with == <<"w","i","t","h">>
C_api == <<"a","p","i">>
C_db == <<"d","b">>

FnReports ==
    LlmReports \cup
    { FallbackReport(S_crash),
      Report(AllKeys, T_Long, "High", ACList(<<C_Auth>>), S_crash, <<>>),
      Report(AllKeys, T_LoginWithForm, "High",
             ACList(<<C_The, C_Auth, C_with, C_AppTsx, C_ui, C_api, C_db>>), S_crash, <<>>),
      Report(AllKeys \ {"title"}, <<>>, "Low",
             ACList(<<C_Auth, C_The, C_api>>), S_crash, <<>>),
      Report(AllKeys \ {"affected_components"}, T_LoginWithForm, "Low", ACNull, S_crash, <<>>),
      Report(AllKeys, T_LoginWithForm, "Low", ACStr(C_with), S_crash, <<>>),
      Report(AllKeys, T_LoginWithForm, "Low", ACStr(C_AppTsx), S_crash, <<>>) }

KeywordCalls ==
    { FnCall("_extract_keywords", <<>>, [kind |-> "error", value |-> NoReport], r, <<>>, <<>>) :
        r \in FnReports }

\* Documents, as lines
Doc3 == << <<"a">>, <<"o","l","d">>, <<"b">> >>
Doc10 == [i \in 1..Len(DigitChars) |-> <<"l", DigitChars[i]>>]
Text(lines) == Join(<<NL>>, lines)

Originals ==
    { <<>>, <<NL>>, Text(Doc3), Text(Doc3) \o <<NL>>, Text(Doc10) }

\* decimal digits of n < 100
Digits(n) ==
    IF n < Len(DigitChars) THEN <<DigitChars[n + 1]>>
    ELSE <<DigitChars[(n \div Len(DigitChars)) + 1], DigitChars[(n % Len(DigitChars)) + 1]>>

\* "@@ -a,b +c,d @@"
Header(a, b, c, d) ==
    <<"@","@"," ","-">> \o Digits(a) \o <<",">> \o Digits(b)
    \o <<" ","+">> \o Digits(c) \o <<",">> \o Digits(d) \o <<" ","@","@">>

Tagged(tag, lines) == [i \in 1..Len(lines) |-> <<tag>> \o lines[i]]

\* the lines of a hunk at 1-based line p that removes k lines of doc and
\* adds the lines of `added`; a removed line past the end of doc is "gone"
HunkLines(doc, p, k, added) ==
    <<Header(p, k, p, Len(added))>>
    \o Tagged("-", [i \in 1..k |-> IF p + i - 1 <= Len(doc) THEN doc[p + i - 1]
                                    ELSE <<"g","o","n","e">>])
    \o Tagged("+", added)

AddedBlocks == { <<>>, << <<"n","e","w">> >>, << <<"x">>, <<"y">> >> }

SingleHunkDocs == { <<>>, Doc3, Doc10 }

SingleHunkCalls ==
    { FnCall("_apply_diff_to_content", <<>>, [kind |-> "error", value |-> NoReport], NoReport,
             Text(doc), Text(HunkLines(doc, p, k, added))) :
        doc \in SingleHunkDocs, p \in 1..MaxHunkStart, k \in 0..MaxHunkCount,
        added \in AddedBlocks }

\* two non-overlapping hunks of Doc10, in both orders of listing
SecondStarts == {7, 8}
HunkShapes == [p : 1..MaxHunkStart, k : 0..MaxHunkCount, added : AddedBlocks]

\* the first hunk ends before line q, where the second one starts
TwoHunkShapes ==
    { t \in [first : HunkShapes, second : HunkShapes, q : SecondStarts] :
        t.first.p + t.first.k <= t.q /\ t.second.p = 1 }

TwoHunkPatches ==
    UNION { LET lower == HunkLines(Doc10, t.first.p, t.first.k, t.first.added)
                upper == HunkLines(Doc10, t.q, t.second.k, t.second.added)
            IN { Text(lower \o upper), Text(upper \o lower) } :
            t \in TwoHunkShapes }

TwoHunkCalls ==
    { FnCall("_apply_diff_to_content", <<>>, [kind |-> "error", value |-> NoReport], NoReport,
             Text(Doc10), d) : d \in TwoHunkPatches }

\* patches without a hunk header, headers with missing or non-numeric
\* range fields, a hunk with context lines, a hunk of one context line and
\* a hunk whose old range starts at 0
OtherPatches ==
    { <<>>,
      Text(<< <<"-","o","l","d">>, <<"+","n","e","w">> >>),
      Text(<< <<"-","-","-"," ","a","/","f">>, <<"+","+","+"," ","b","/","f">> >>),
      Text(<< <<" ","@","@"," ","-","2",",","1"," ","+","2",",","1"," ","@","@">>,
              <<"-","o","l","d">>, <<"+","n","e","w">> >>),
      Text(<< <<"@","@">>, <<"-","o","l","d">>, <<"+","n","e","w">> >>),
      Text(<< <<"@","@"," ","-","2">>, <<"-","o","l","d">>, <<"+","n","e","w">> >>),
      Text(<< <<"@","@"," ","-","x",",","1"," ","+","y",",","1"," ","@","@">>,
              <<"-","o","l","d">>, <<"+","n","e","w">> >>),
      Text(<< <<"@","@"," ","-",",","1"," ","+",",","1"," ","@","@">>,
              <<"-","o","l","d">>, <<"+","n","e","w">> >>),
      Text(<< <<"@","@"," ","-","2",",","1"," ","@","@">>,
              <<"-","o","l","d">>, <<"+","n","e","w">> >>),
      Text(<< Header(1, 3, 1, 3), <<" ","a">>, <<"-","o","l","d">>, <<"+","n","e","w">>,
              <<" ","b">> >>),
      Text(<< Header(2, 1, 2, 1), <<" ","o","l","d">> >>),
      Text(<< Header(0, 0, 1, 2), <<"+","x">>, <<"+","y">> >>) }

OtherPatchCalls ==
    { FnCall("_apply_diff_to_content", <<>>, [kind |-> "error", value |-> NoReport], NoReport,
             original, d) : original \in Originals, d \in OtherPatches }

\* Direct calls of get_relevant_files: keyword lists that give each set of
\* queries, every limit up to MaxAsked, searches that fail, find one file or
\* find a file twice, and stored sizes around the limit.
KeywordLists == {<<>>, <<C_ui>>, <<C_Auth>>, <<C_AppTsx, C_Auth>>}

CodeResults == {Raised("boom", <<>>), Returned(<<"src/auth.ts">>),
                Returned(<<"src/App.tsx", "src/App.tsx", "src/auth.ts">>)}

StoredSizes == {Raised("boom", 0), Returned(1000), Returned(SizeLimit),
                Returned(SizeLimit + 1)}

RelevantFilesCall(keywords, max_files, search, fetch) ==
    [NoFnCall EXCEPT !.fn = "get_relevant_files", !.keywords = keywords,
                     !.max_files = max_files,
                     !.env = [search |-> search, fetch |-> fetch]]

FnCalls == ParseCalls \cup KeywordCalls \cup SingleHunkCalls \cup TwoHunkCalls
           \cup OtherPatchCalls

FnInit ==
    /\ active_workflows = [id \in WorkflowIds |-> NoRecord]
    /\ pc = [id \in WorkflowIds |-> "idle"]
    /\ frame = [id \in WorkflowIds |-> NoFrame]
    /\ calls = [id \in WorkflowIds |-> <<>>]
    /\ raised = [id \in WorkflowIds |-> NoExc]
    /\ result = [id \in WorkflowIds |-> NoResult]
    /\ runs = [id \in WorkflowIds |-> 0]
    /\ \/ fn_call \in FnCalls
       \/ \E keywords \in KeywordLists, max_files \in 0..MaxAsked,
             search \in [Strategies -> CodeResults], fetch \in [Paths -> StoredSizes] :
            fn_call = RelevantFilesCall(keywords, max_files, search, fetch)
    /\ fn_return = Pending
    /\ processing_threads = {}
    /\ mention = [m \in Mentions |-> NotDelivered]
    /\ answer = NoAnswer

CallParseBugReport ==
    /\ fn_call.fn = "parse_bug_report"
    /\ fn_return = Pending
    /\ fn_return' = parse_bug_report(fn_call.conversation, fn_call.llm)
    /\ UNCHANGED <<fn_call, run_vars, bot_vars, answer>>

CallExtractKeywords ==
    /\ fn_call.fn = "_extract_keywords"
    /\ fn_return = Pending
    /\ fn_return' = _extract_keywords(fn_call.bug_report)
    /\ UNCHANGED <<fn_call, run_vars, bot_vars, answer>>

CallApplyDiff ==
    /\ fn_call.fn = "_apply_diff_to_content"
    /\ fn_return = Pending
    /\ fn_return' = _apply_diff_to_content(fn_call.original, fn_call.diff)
    /\ UNCHANGED <<fn_call, run_vars, bot_vars, answer>>

\* the value is the list returned together with the searches made
CallGetRelevantFiles ==
    /\ fn_call.fn = "get_relevant_files"
    /\ fn_return = Pending
    /\ fn_return' = Returned(SearchRepository(fn_call.keywords, fn_call.max_files,
                                              fn_call.env))
    /\ UNCHANGED <<fn_call, run_vars, bot_vars, answer>>

FnNext ==
    \/ CallParseBugReport
    \/ CallExtractKeywords
    \/ CallApplyDiff
    \/ CallGetRelevantFiles

FnSpec == FnInit /\ [][FnNext]_vars

\* the direct call of fn has ended
Called(fn) == fn_call.fn = fn /\ fn_return # Pending

(***************************************************************************)
(* The mention handler, DevSyncSlackBot._process_mention                   *)
(* (src/slack_bot.py:50-179).  The handler is a coroutine: it gives up the *)
(* event loop at each await and nowhere else, so one action is the code    *)
(* from one await to the next.  process_slack_conversation contains no     *)
(* await: awaiting it runs the whole workflow before any other handler     *)
(* gets the event loop, so the invocation is one action.                   *)
(***************************************************************************)
\* Outcomes of a chat-platform call (say, chat_update)
ChatOutcomes == {"ok", "raise"}

\* Outcomes of reading the thread (src/slack_bot.py:91-124): a conversation,
\* nothing to work on, or an exception that neither _get_thread_messages nor
\* the handlers of lines 104 and 116 catch
ThreadOutcomes == {"conversation", "empty", "raise"}

AlreadyText == "Already processing this thread..."
AckText == "Processing thread..."
ErrorText == "Error"

\* the handler goes on at `next`
Goto(m, next) == mention' = [mention EXCEPT ![m].pc = next]

\* await say(text): the message is posted or the call raises
Say(m, text, out, next) ==
    mention' = [mention EXCEPT
                  ![m].said = IF out = "ok" THEN Append(@, text) ELSE @,
                  ![m].pc = IF out = "ok" THEN next ELSE "say_error"]

\* finally: self.processing_threads.discard(thread_id)
Discard(m) == processing_threads' = processing_threads \ {mention[m].thread_id}

\* the handler that never looks at the in-progress set
CheckThread_unguarded(m) ==
    /\ mention[m].pc = "pending"
    /\ \E thread_id \in WorkflowIds :
         /\ processing_threads' = processing_threads \cup {thread_id}
         /\ mention' = [mention EXCEPT ![m].thread_id = thread_id,
                                       ![m].pc = "say_ack"]
    /\ UNCHANGED <<run_vars, fn_vars, answer>>

\* src/slack_bot.py:61-79: from the arrival of the event to the first await
CheckThread(m) ==
    /\ mention[m].pc = "pending"
    /\ \E thread_id \in WorkflowIds :
         IF thread_id \in processing_threads
         THEN /\ mention' = [mention EXCEPT ![m].thread_id = thread_id,
                                            ![m].rejected = TRUE,
                                            ![m].pc = "say_already"]
              /\ UNCHANGED processing_threads
         ELSE /\ processing_threads' = processing_threads \cup {thread_id}
              /\ mention' = [mention EXCEPT ![m].thread_id = thread_id,
                                            ![m].pc = "say_ack"]
    /\ UNCHANGED <<run_vars, fn_vars, answer>>

\* src/slack_bot.py:73-77: the answer to a duplicate, then return
SayAlready(m) ==
    /\ mention[m].pc = "say_already"
    /\ \E out \in ChatOutcomes : Say(m, AlreadyText, out, "done")
    /\ UNCHANGED <<processing_threads, run_vars, fn_vars, answer>>

\* src/slack_bot.py:82-85: the acknowledgement, before the try of line 87
SayAck(m) ==
    /\ mention[m].pc = "say_ack"
    /\ \E out \in ChatOutcomes : Say(m, AckText, out, "get_thread_messages")
    /\ UNCHANGED <<processing_threads, run_vars, fn_vars, answer>>

\* src/slack_bot.py:91-126
GetThreadMessages(m) ==
    /\ mention[m].pc = "get_thread_messages"
    /\ \E out \in ThreadOutcomes :
         IF out = "raise"
         THEN Discard(m) /\ Goto(m, "say_error")
         ELSE /\ Goto(m, IF out = "empty" THEN "ask_context" ELSE "update_status")
              /\ UNCHANGED processing_threads
    /\ UNCHANGED <<run_vars, fn_vars, answer>>

\* src/slack_bot.py:126-132: chat_update asking for context, then return
AskContext(m) ==
    /\ mention[m].pc = "ask_context"
    /\ \E out \in ChatOutcomes : Goto(m, IF out = "ok" THEN "done" ELSE "say_error")
    /\ Discard(m)
    /\ UNCHANGED <<run_vars, fn_vars, answer>>

\* src/slack_bot.py:135-139: chat_update "Parsing bug report..."
UpdateStatus(m) ==
    /\ mention[m].pc = "update_status"
    /\ \E out \in ChatOutcomes :
         IF out = "ok"
         THEN Goto(m, "process") /\ UNCHANGED processing_threads
         ELSE Discard(m) /\ Goto(m, "say_error")
    /\ UNCHANGED <<run_vars, fn_vars, answer>>

\* src/slack_bot.py:145-162: the workflow runs to its end and returns a dict;
\* a response is formatted from it whether it reports success or failure
ProcessConversation(m) ==
    /\ mention[m].pc = "process"
    /\ mention' = [mention EXCEPT ![m].invoked = TRUE, ![m].pc = "send_result"]
    /\ UNCHANGED <<processing_threads, run_vars, fn_vars, answer>>

\* src/slack_bot.py:164-172: chat_update with the response, then the finally
SendResult(m) ==
    /\ mention[m].pc = "send_result"
    /\ \E out \in ChatOutcomes : Goto(m, IF out = "ok" THEN "done" ELSE "say_error")
    /\ Discard(m)
    /\ UNCHANGED <<run_vars, fn_vars, answer>>

\* src/slack_bot.py:174-179: the handler of the outer try; if this say raises
\* too the exception leaves the handler
SayError(m) ==
    /\ mention[m].pc = "say_error"
    /\ \E out \in ChatOutcomes :
         mention' = [mention EXCEPT
                       ![m].said = IF out = "ok" THEN Append(@, ErrorText) ELSE @,
                       ![m].pc = "done"]
    /\ UNCHANGED <<processing_threads, run_vars, fn_vars, answer>>

BotNext ==
    \E m \in Mentions :
        \/ CheckThread(m)
        \/ SayAlready(m)
        \/ SayAck(m)
        \/ GetThreadMessages(m)
        \/ AskContext(m)
        \/ UpdateStatus(m)
        \/ ProcessConversation(m)
        \/ SendResult(m)
        \/ SayError(m)

BotSpec == Init /\ [][BotNext]_vars

\* the handling of m is between the add of line 79 and the discard of line 172
Holding(m) ==
    mention[m].pc \in {"say_ack", "get_thread_messages", "ask_context",
                       "update_status", "process", "send_result"}

(***************************************************************************)
(* Observations used by the properties.                                    *)
(***************************************************************************)
Steps(id) == active_workflows[id].steps
Statuses(id) == [i \in 1..Len(Steps(id)) |-> Steps(id)[i].status]
LastStep(id) == Steps(id)[Len(Steps(id))]
HasStatus(id, st) == \E i \in 1..Len(Steps(id)) : Steps(id)[i].status = st
HasCall(id, op) == \E i \in 1..Len(calls[id]) : calls[id][i].op = op
SourceHostWrites == {"create_git_ref", "update_file", "create_file", "create_pull"}

StatusOrder ==
    <<"started", "parsing_bug_report", "bug_report_parsed", "analyzing_codebase",
      "generating_fix", "fix_generated", "creating_jira_ticket", "jira_ticket_created",
      "creating_pr", "pr_created", "completed">>
Rank(st) == CHOOSE i \in 1..Len(StatusOrder) : StatusOrder[i] = st

(***************************************************************************)
(* C1: process_slack_conversation never lets an exception reach its        *)
(* caller: whatever the collaborators do, the call ends by returning a     *)
(* result, and when an exception reached the handler the record's last     *)
(* step is 'failed'.                                                       *)
(***************************************************************************)
C1_NeverPropagates ==
    \A id \in WorkflowIds :
        /\ pc[id] # "propagated"
        /\ pc[id] = "returned" =>
             /\ result[id] # NoResult
             /\ raised[id] # NoExc =>
                  /\ active_workflows[id].status = "failed"
                  /\ LastStep(id).status = "failed"
                  /\ ~result[id].success

C1_Witness ==
    \E id \in WorkflowIds :
        /\ pc[id] = "returned"
        /\ raised[id] = "boom"
        /\ HasCall(id, "create_pull")

(***************************************************************************)
(* C2: every returned result has a boolean 'success', and a result with    *)
(* success = false carries a non-empty 'error' string.                     *)
(* Violated: the error is str(e), which is empty for an exception raised   *)
(* without a message.                                                      *)
(***************************************************************************)
C2_ErrorNonEmpty ==
    \A id \in WorkflowIds :
        pc[id] = "returned" =>
            /\ "success" \in result[id].keys
            /\ result[id].success \in BOOLEAN
            /\ ~result[id].success =>
                 "error" \in result[id].keys /\ result[id].error # ""

(***************************************************************************)
(* C3: the statuses written to a record during a run ('started' at its     *)
(* creation, then the step log) follow the order started,                  *)
(* parsing_bug_report, ..., completed strictly: none twice, none after a   *)
(* later one; the only other status is 'failed'.                           *)
(***************************************************************************)
C3_ForwardProgress ==
    \A id \in WorkflowIds :
        active_workflows[id] # NoRecord =>
            LET written == <<"started">> \o Statuses(id) IN
            /\ \A i \in 1..Len(written) : written[i] \in Range(StatusOrder) \cup {"failed"}
            /\ active_workflows[id].status \in Range(StatusOrder) \cup {"failed"}
            /\ \A i, j \in 1..Len(written) :
                 (i < j /\ written[i] # "failed" /\ written[j] # "failed")
                    => Rank(written[i]) < Rank(written[j])

C3_Witness ==
    \E id \in WorkflowIds : <<"started">> \o Statuses(id) = StatusOrder

(***************************************************************************)
(* C4 as claimed: the step log of a record is append-only over the whole   *)
(* process lifetime, across runs for the same workflow id, and a record is *)
(* never deleted or replaced.                                              *)
(* Violated: a later run for the same id assigns a fresh record.           *)
(***************************************************************************)
C4_AppendOnlyAcrossRuns ==
    [][\A id \in WorkflowIds :
          active_workflows[id] # NoRecord =>
              /\ active_workflows'[id] # NoRecord
              /\ IsPrefix(active_workflows[id].steps, active_workflows'[id].steps)]_vars

(***************************************************************************)
(* C4 amended: a record is never removed from the table, and its step log  *)
(* is append-only from the start of a run to the start of the next run for *)
(* the same workflow id; the start of a run replaces the record by a fresh *)
(* one whose log holds only that run's first step.                         *)
(***************************************************************************)
C4_AppendOnlyWithinRun ==
    [][\A id \in WorkflowIds :
          active_workflows[id] # NoRecord =>
              /\ active_workflows'[id] # NoRecord
              /\ IF pc[id] = "idle" /\ pc'[id] # "idle"
                 THEN Statuses(id)' = <<"parsing_bug_report">>
                 ELSE IsPrefix(active_workflows[id].steps, active_workflows'[id].steps)]_vars

C4_Witness ==
    \E id \in WorkflowIds :
        /\ runs[id] >= 2
        /\ pc[id] = "returned"
        /\ Len(Steps(id)) >= 8

(***************************************************************************)
(* C5: 'completed' and 'failed' are terminal: a step with one of these     *)
(* statuses is the last step of its run (so no run records both), and the  *)
(* run has returned once it is logged.                                     *)
(***************************************************************************)
C5_TerminalStatuses ==
    \A id \in WorkflowIds :
        /\ \A i \in 1..Len(Steps(id)) :
             Steps(id)[i].status \in {"completed", "failed"} => i = Len(Steps(id))
        /\ (Steps(id) # <<>> /\ LastStep(id).status \in {"completed", "failed"})
              => pc[id] \in {"returned", "idle"}

C5_Witness ==
    \E id, other \in WorkflowIds :
        /\ pc[id] = "returned" /\ LastStep(id).status = "completed"
        /\ Steps(other) # <<>> /\ LastStep(other).status = "failed"

C7_TicketFailureFatal ==
    \A id \in WorkflowIds :
        \A i \in 1..Len(calls[id]) :
            (calls[id][i].op = "create_issue" /\ ~calls[id][i].ok) =>
                /\ i = Len(calls[id])
                /\ pc[id] = "returned"
                /\ LastStep(id).status = "failed"
                /\ LastStep(id).data.error = calls[id][i].err
                /\ ~result[id].success
                /\ result[id].error = calls[id][i].err

C7_Witness ==
    \E id \in WorkflowIds :
        /\ calls[id] # <<>>
        /\ calls[id][Len(calls[id])].op = "create_issue"
        /\ ~calls[id][Len(calls[id])].ok
        /\ result[id].error = "boom"

(***************************************************************************)
(* C8: a run whose fix proposal has empty code_changes makes no branch,    *)
(* file-write or pull-request call; once its ticket is created it posts    *)
(* the 'manual investigation required' comment and returns success = true  *)
(* with pr_url = None; it fails only when ticket creation fails.           *)
(***************************************************************************)
EmptyProposal(id) ==
    \E i \in 1..Len(Steps(id)) :
        /\ Steps(id)[i].status = "fix_generated"
        /\ Steps(id)[i].data.files_to_change = 0

C8_EmptyProposalAdvisory ==
    \A id \in WorkflowIds :
        (pc[id] # "idle" /\ EmptyProposal(id)) =>
            /\ \A i \in 1..Len(calls[id]) : calls[id][i].op \notin SourceHostWrites
            /\ pc[id] = "returned" =>
                 IF \E i \in 1..Len(calls[id]) :
                        calls[id][i].op = "create_issue" /\ calls[id][i].ok
                 THEN /\ result[id].success
                      /\ result[id].pr_url = PyNone
                      /\ LastStep(id).status = "completed"
                      /\ calls[id][Len(calls[id])].op = "add_comment"
                      /\ calls[id][Len(calls[id])].arg = ManualComment
                 ELSE /\ ~result[id].success
                      /\ calls[id][Len(calls[id])].op = "create_issue"

C8_Witness ==
    \E id \in WorkflowIds :
        /\ pc[id] = "returned"
        /\ EmptyProposal(id)
        /\ result[id].success
        /\ calls[id][Len(calls[id])].arg = ManualComment

(***************************************************************************)
(* C9: a failure of the fix-proposal call never aborts the workflow:       *)
(* 'generating_fix' is always followed by 'fix_generated', and when the    *)
(* language model raised or gave no proposal the run goes on to ticket     *)
(* creation with a manual-fix proposal whose code_changes is empty.        *)
(***************************************************************************)
NoProposalAnswers == {"error", "empty_object", "null_changes"}

C9_FixFailureTolerated ==
    \A id \in WorkflowIds :
        /\ \A i \in 1..Len(Steps(id)) :
             (Steps(id)[i].status = "generating_fix" /\ i < Len(Steps(id)))
                => Steps(id)[i + 1].status = "fix_generated"
        /\ pc[id] # "generate" => ~HasStatus(id, "generating_fix")
                                  \/ HasStatus(id, "creating_jira_ticket")
        /\ \A i \in 1..Len(calls[id]) :
             (calls[id][i].op = "generate_code_fix"
                 /\ calls[id][i].arg \in NoProposalAnswers) =>
                /\ EmptyProposal(id)
                /\ HasStatus(id, "creating_jira_ticket")
                /\ pc[id] = "ticket" =>
                     /\ frame[id].fix \in {FallbackFix, ManualFix}
                     /\ GetCodeChanges(frame[id].fix).items = <<>>

C9_Witness ==
    \E id \in WorkflowIds :
        /\ pc[id] = "ticket"
        /\ calls[id][Len(calls[id])].op = "generate_code_fix"
        /\ calls[id][Len(calls[id])].arg = "error"
        /\ frame[id].fix = FallbackFix

(***************************************************************************)
(* C10: the context step never fails the workflow: for a report whose      *)
(* affected_components is a list of strings, a single string, null or      *)
(* absent, and whatever the source-host search and fetch calls do, keyword *)
(* extraction and context assembly end without an exception and the run    *)
(* logs 'generating_fix'.                                                  *)
(***************************************************************************)
LegalComponents(bug_report) ==
    \/ "affected_components" \notin bug_report.keys
    \/ bug_report.affected_components.kind \in {"list", "str", "null"}

C10_ContextNeverFails ==
    [][\A id \in WorkflowIds :
          (pc[id] \in {"context", "assemble"} /\ LegalComponents(frame[id].bug_report)
                                               /\ pc'[id] # pc[id]) =>
              /\ raised'[id] = NoExc
              /\ pc'[id] \in {"assemble", "generate"}
              /\ pc'[id] = "generate" => active_workflows'[id].status = "generating_fix"]_vars

C10_Witness ==
    \E id \in WorkflowIds :
        /\ pc[id] = "generate"
        /\ frame[id].bug_report.affected_components.kind = "str"
        /\ frame[id].code_context = NoContextFound
        /\ LastStep(id).status = "generating_fix"

(***************************************************************************)
(* C11: the similar-issue search is non-blocking: when the issue tracker's *)
(* search raises, no exception reaches the handler at that step, the list  *)
(* of similar issues is empty, the run logs 'analyzing_codebase' and goes  *)
(* on to the context step; a run that then succeeds returns an empty       *)
(* similar_issues list.                                                    *)
(***************************************************************************)
C11_SearchFailureSwallowed ==
    \A id \in WorkflowIds :
        \A i \in 1..Len(calls[id]) :
            (calls[id][i].op = "search_issues" /\ ~calls[id][i].ok) =>
                /\ HasStatus(id, "analyzing_codebase")
                /\ pc[id] # "similar"
                /\ (i = Len(calls[id]) /\ pc[id] = "context") =>
                          /\ raised[id] = NoExc
                          /\ frame[id].similar_issues = <<>>
                          /\ LastStep(id).status = "analyzing_codebase"
                /\ (pc[id] = "returned" /\ result[id].success) =>
                     result[id].similar_issues = <<>>

C11_Witness ==
    \E id \in WorkflowIds :
        /\ pc[id] = "returned"
        /\ result[id].success
        /\ result[id].similar_issues = <<>>
        /\ \E i \in 1..Len(calls[id]) :
              calls[id][i].op = "search_issues" /\ ~calls[id][i].ok

(***************************************************************************)
(* C12 as claimed: for every well-formed conversation and every outcome of *)
(* the language-model call, the report parse_bug_report returns has a      *)
(* non-empty title.                                                        *)
(* Violated: a JSON object without 'title', or with an empty one, is       *)
(* returned as it is.                                                      *)
(***************************************************************************)
WellFormed(conversation) ==
    \A i \in 1..Len(conversation) : {"user", "text"} \subseteq conversation[i].keys

C12_TitleNonEmpty ==
    (Called("parse_bug_report") /\ WellFormed(fn_call.conversation)) =>
        /\ ~fn_return.raised
        /\ "title" \in fn_return.value.keys
        /\ fn_return.value.title # <<>>

(***************************************************************************)
(* C13: when the language-model call raises or its output holds no         *)
(* parsable JSON object, parse_bug_report returns the fallback report:     *)
(* the literal title 'Bug Report from Slack', description = the first 500  *)
(* characters of the 'author: text' transcript, severity Medium,           *)
(* affected_components the empty list, additional_context the whole        *)
(* transcript.                                                             *)
(***************************************************************************)
NoJsonOutcomes == {"error", "no_json", "bad_json"}

C13_FallbackReport ==
    (Called("parse_bug_report") /\ WellFormed(fn_call.conversation)
                                /\ fn_call.llm.kind \in NoJsonOutcomes) =>
        LET conversation == fn_call.conversation
            lines == [i \in 1..Len(conversation) |->
                        conversation[i].user \o <<":", " ">> \o conversation[i].text]
            r == fn_return.value
        IN /\ ~fn_return.raised
           /\ r.title = <<"B","u","g"," ","R","e","p","o","r","t"," ","f","r","o","m"," ",
                          "S","l","a","c","k">>
           /\ "title" \in r.keys
           /\ r.severity = "Medium"
           /\ r.affected_components = ACList(<<>>)
           /\ r.additional_context = Join(<<NL>>, lines)
           /\ IsPrefix(r.description, r.additional_context)
           /\ Len(r.description) = Min(500, Len(r.additional_context))

C13_Witness ==
    /\ Called("parse_bug_report")
    /\ fn_call.llm.kind = "no_json"
    /\ ~fn_return.raised
    /\ Len(fn_return.value.additional_context) > 500
    /\ Len(fn_return.value.description) = 500

(***************************************************************************)
(* C14: the keyword list _extract_keywords returns has at most 5 entries   *)
(* and none of them equals a stop-word when compared in lower case.        *)
(***************************************************************************)
C14_KeywordsBounded ==
    (Called("_extract_keywords") /\ ~fn_return.raised) =>
        /\ Len(fn_return.value) <= 5
        /\ \A i \in 1..Len(fn_return.value) :
             Lower(fn_return.value[i]) \notin Stopwords

C14_Witness ==
    /\ Called("_extract_keywords")
    /\ ~fn_return.raised
    /\ Len(fn_return.value) = 5
    /\ fn_call.bug_report.affected_components.kind = "list"
    /\ Len(fn_call.bug_report.affected_components.items) > 5
    /\ \E i \in 1..Len(fn_call.bug_report.affected_components.items) :
          fn_call.bug_report.affected_components.items[i] = <<"T","h","e">>

(***************************************************************************)
(* C15 as claimed: for affected_components given as a list or as a single  *)
(* string, _extract_keywords returns the title words longer than 3         *)
(* characters followed by the component names as whole entries (a string   *)
(* being one component name), without the stop-words, in that order, cut   *)
(* to 5.                                                                   *)
(* Violated: a string is added character by character.                     *)
(***************************************************************************)
C15_ComponentsWhole ==
    (Called("_extract_keywords")
        /\ "affected_components" \in fn_call.bug_report.keys
        /\ fn_call.bug_report.affected_components.kind \in {"list", "str"}) =>
        LET report == fn_call.bug_report
            Long(w) == Len(w) > 3
            NotStop(k) == Lower(k) \notin Stopwords
            words == IF "title" \in report.keys
                     THEN SelectSeq(Split(report.title), Long) ELSE <<>>
            names == report.affected_components.items
            expected == SelectSeq(words \o names, NotStop)
        IN /\ ~fn_return.raised
           /\ fn_return.value = SubSeq(expected, 1, Min(5, Len(expected)))

(***************************************************************************)
(* C16 as claimed: _apply_diff_to_content never raises: for every original *)
(* text and every patch text it returns a string.                          *)
(* Violated: a '@@' line whose range field is not a number makes int()     *)
(* raise ValueError, which nothing catches.                                *)
(***************************************************************************)
C16_NeverRaises ==
    Called("_apply_diff_to_content") => ~fn_return.raised

(***************************************************************************)
(* C17: for every original text and every patch in which no line starts    *)
(* with '@@', _apply_diff_to_content returns exactly the original text.    *)
(***************************************************************************)
NoHeaderLine(diff) ==
    \A i \in 1..(Len(diff) - 1) :
        (diff[i] = "@" /\ diff[i + 1] = "@") => ~(i = 1 \/ diff[i - 1] = NL)

C17_NoHeaderNoChange ==
    (Called("_apply_diff_to_content") /\ NoHeaderLine(fn_call.diff)) =>
        /\ ~fn_return.raised
        /\ fn_return.value = fn_call.original

C17_Witness ==
    /\ Called("_apply_diff_to_content")
    /\ NoHeaderLine(fn_call.diff)
    /\ fn_call.diff = <<"-","o","l","d",NL,"+","n","e","w">>
    /\ fn_call.original = <<"a",NL,"o","l","d",NL,"b",NL>>
    /\ fn_return.value = fn_call.original

(***************************************************************************)
(* C18 as claimed: a patch with one hunk at 1-based line p made of k '-'   *)
(* lines followed by m '+' lines, applied to a document with at least      *)
(* p+k-1 lines, yields the document whose lines p..p+k-1 are replaced by   *)
(* the m added lines, all other lines unchanged and in order.              *)
(* Violated: for the empty document (p = 1, k = 0) the engine returns the  *)
(* empty text instead of the added lines.                                  *)
(***************************************************************************)
C18_SingleHunkReplaces ==
    Called("_apply_diff_to_content") =>
        \A doc \in SingleHunkDocs, p \in 1..MaxHunkStart, k \in 0..MaxHunkCount,
           added \in AddedBlocks :
            (/\ fn_call.original = Text(doc)
             /\ fn_call.diff = Text(HunkLines(doc, p, k, added))
             /\ Len(doc) >= p + k - 1) =>
                /\ ~fn_return.raised
                /\ fn_return.value =
                      Text(SubSeq(doc, 1, p - 1) \o added \o SubSeq(doc, p + k, Len(doc)))

(***************************************************************************)
(* C19 as claimed: for a patch with two non-overlapping hunks applied to a *)
(* 10-line document the result does not depend on the order in which the   *)
(* two hunks are listed in the patch.                                      *)
(* Violated: the hunks are applied in reverse order of listing, without    *)
(* sorting; when the hunk nearer the top is listed last it is applied      *)
(* first, and if it changes the number of lines the other hunk lands on    *)
(* the wrong lines.                                                        *)
(***************************************************************************)
\* the lines of a patch, cut before each '@@' line
RECURSIVE HunkBlocks(_, _)
HunkBlocks(lines, blocks) ==
    IF lines = <<>> THEN blocks
    ELSE IF blocks = <<>> \/ StartsWith(Head(lines), <<"@", "@">>)
    THEN HunkBlocks(Tail(lines), Append(blocks, <<Head(lines)>>))
    ELSE HunkBlocks(Tail(lines), [blocks EXCEPT ![Len(blocks)] = Append(@, Head(lines))])

Reverse(seq) == [i \in 1..Len(seq) |-> seq[Len(seq) - i + 1]]

\* the same patch with its hunks listed in the opposite order
HunksReversed(diff) == Text(Concat(Reverse(HunkBlocks(SplitLines(diff), <<>>))))

TwoHunks(diff) ==
    LET parsed == ParseHunks(SplitLines(diff), <<>>)
    IN ~parsed.raised /\ Len(parsed.value) = 2

C19_OrderIndependent ==
    (Called("_apply_diff_to_content") /\ fn_call.original = Text(Doc10)
                                      /\ TwoHunks(fn_call.diff)) =>
        fn_return = _apply_diff_to_content(fn_call.original, HunksReversed(fn_call.diff))

(***************************************************************************)
(* C20 as claimed: in a run, a file change whose content is a unified-diff *)
(* patch (it has '@@' hunk header lines) is applied through the patch      *)
(* engine: the content written for its path is                             *)
(* _apply_diff_to_content(current content of the file, patch); a           *)
(* full-replacement change is written verbatim.                            *)
(* Violated: apply_code_changes writes the 'changes' string of every       *)
(* change as the new file content and never calls the patch engine.        *)
(***************************************************************************)
\* what the patch of the proposal gives on the current content of its file
PatchedContent == "a\nnew\nb"

\* the characters of the content strings of the model
ContentChars(content) ==
    CASE content = PatchContent ->
           <<"@","@"," ","-","2",",","1"," ","+","2",",","1"," ","@","@","\n","-","o","l","d","\n","+","n","e","w">>
      [] content = PatchedContent -> <<"a","\n","n","e","w","\n","b">>
      [] content = FullContent ->
           <<"e","x","p","o","r","t"," ","c","o","n","s","t"," ","A","p","p"," ","="," ","(",")"," ","=",">"," ","n","u","l","l">>

\* the content src/auth.ts has on the branch when the run updates it
CurrentContent(path) == Text(Doc3)

C20_PatchAppliedOnWrite ==
    \A id \in WorkflowIds :
        pc[id] \in {"pull_request", "comment_pr", "complete"} =>
            LET changes == GetCodeChanges(frame[id].fix).items IN
            \A i \in 1..Len(calls[id]) : \A j \in 1..Len(changes) :
                (calls[id][i].op = "update_file" /\ calls[id][i].arg = changes[j].file) =>
                    IF ~NoHeaderLine(ContentChars(changes[j].changes))
                    THEN ContentChars(calls[id][i].content) =
                           _apply_diff_to_content(CurrentContent(changes[j].file),
                                                  ContentChars(changes[j].changes)).value
                    ELSE calls[id][i].content = changes[j].changes

(***************************************************************************)
(* C21: the guard on processing_threads gives mutual exclusion per thread  *)
(* id: under every interleaving of mention handlings at most one handling  *)
(* of a given thread id is between the add and the discard of its id, and  *)
(* the invocation of process_slack_conversation lies between them; a       *)
(* mention that found its thread id in the set never invokes the workflow  *)
(* and the only thing it posts is 'Already processing this thread...'.     *)
(***************************************************************************)
C21_MutualExclusion ==
    /\ \A m1, m2 \in Mentions :
         (m1 # m2 /\ Holding(m1) /\ Holding(m2))
             => mention[m1].thread_id # mention[m2].thread_id
    /\ \A m \in Mentions :
         /\ mention[m].pc = "process" => Holding(m)
         /\ Holding(m) => mention[m].thread_id \in processing_threads
         /\ mention[m].rejected =>
              /\ ~mention[m].invoked
              /\ ~Holding(m)
              /\ Range(mention[m].said) \subseteq {AlreadyText, ErrorText}
         /\ AlreadyText \in Range(mention[m].said) => mention[m].rejected

C21_Witness ==
    \E m1, m2 \in Mentions :
        /\ mention[m1].pc = "process"
        /\ mention[m2].rejected
        /\ mention[m2].thread_id = mention[m1].thread_id
        /\ mention[m2].said = <<AlreadyText>>

(***************************************************************************)
(* C22: the in-progress mark is always cleared: a thread id is in          *)
(* processing_threads only while a handling that added it is under way, so *)
(* no mention is rejected when nothing is in flight for its thread.        *)
(* Violated: the acknowledgement of line 82 is awaited after the add and   *)
(* before the try whose finally discards the id.                           *)
(***************************************************************************)
C22_MarkCleared ==
    \A thread_id \in processing_threads :
        \E m \in Mentions : mention[m].thread_id = thread_id /\ Holding(m)

(***************************************************************************)
(* C23: records are isolated by key: a step that changes the record stored *)
(* under W is a step of the run for W, it leaves every other record        *)
(* unchanged, and it either replaces the log of W by the first transition  *)
(* of a new run or appends transitions to it, so the log of W holds the    *)
(* transitions of the run for W in the order the run made them.  No run    *)
(* for another key can act in between: the coroutine has no await.         *)
(***************************************************************************)
C23_RecordsIsolated ==
    [][\A w \in WorkflowIds :
          active_workflows'[w] # active_workflows[w] =>
              /\ pc'[w] # pc[w]
              /\ \A other \in WorkflowIds \ {w} :
                    /\ active_workflows'[other] = active_workflows[other]
                    /\ pc[other] = "idle" /\ pc'[other] = "idle"
              /\ IF pc[w] = "idle"
                 THEN Statuses(w)' = <<"parsing_bug_report">>
                 ELSE /\ IsPrefix(Steps(w), Steps(w)')
                      /\ Len(Steps(w)') > Len(Steps(w))
                      /\ active_workflows'[w].status = LastStep(w)'.status]_vars

C23_Witness ==
    \E w, other \in WorkflowIds :
        /\ w # other
        /\ pc[other] = "idle"
        /\ active_workflows[other] # NoRecord
        /\ LastStep(other).status = "completed"
        /\ pc[w] = "returned"
        /\ LastStep(w).status = "failed"

(***************************************************************************)
(* C24: get_workflow_status is a pure read: it never raises, for an id     *)
(* with a record it returns that record, for any other id it returns       *)
(* not-found (None), and the call leaves the workflow table unchanged.     *)
(***************************************************************************)
C24_PureRead ==
    [][(fn_call = NoFnCall /\ fn_call'.fn = "get_workflow_status") =>
          LET workflow_id == fn_call'.workflow_id IN
          /\ ~fn_return'.raised
          /\ (workflow_id \in WorkflowIds /\ active_workflows[workflow_id] # NoRecord)
                => fn_return'.value = active_workflows[workflow_id]
          /\ (workflow_id \notin WorkflowIds \/ active_workflows[workflow_id] = NoRecord)
                => fn_return'.value = NoRecord
          /\ active_workflows' = active_workflows]_vars

C24_Witness ==
    /\ fn_call.fn = "get_workflow_status"
    /\ fn_call.workflow_id \notin WorkflowIds
    /\ fn_return = Returned(NoRecord)
    /\ \E w \in WorkflowIds : active_workflows[w] # NoRecord

(***************************************************************************)
(* C25: a branch-name collision is retried exactly once: a run makes at    *)
(* most two create_git_ref calls; the second is made only after the first  *)
(* failed with the 422 conflict, and with the suffixed name; a failure     *)
(* other than 422 is not retried; when the last attempt failed the run     *)
(* makes no further call and ends 'failed' with that error.                *)
(***************************************************************************)
C25_RetriedOnce ==
    \A id \in WorkflowIds :
        LET IsRef(c) == c.op = "create_git_ref"
            refs == SelectSeq(calls[id], IsRef)
            conflict == CHOOSE o \in GitRefOutcomes : o.status = ConflictStatus
        IN /\ Len(refs) <= 2
           /\ Len(refs) >= 1 => refs[1].arg = BranchName
           /\ Len(refs) = 2 =>
                /\ ~refs[1].ok /\ refs[1].err = conflict.err
                /\ refs[2].arg = SuffixedBranchName
           /\ (Len(refs) >= 1 /\ pc[id] # "branch" /\ ~refs[1].ok
                             /\ refs[1].err # conflict.err) => Len(refs) = 1
           /\ (Len(refs) >= 1 /\ ~refs[Len(refs)].ok) =>
                /\ calls[id][Len(calls[id])] = refs[Len(refs)]
                /\ pc[id] = "returned"
                /\ LastStep(id).status = "failed"
                /\ ~result[id].success
                /\ result[id].error = refs[Len(refs)].err

C25_Witness ==
    \E id \in WorkflowIds :
        LET IsRef(c) == c.op = "create_git_ref"
            refs == SelectSeq(calls[id], IsRef)
        IN /\ Len(refs) = 2
           /\ ~refs[2].ok
           /\ pc[id] = "returned"
           /\ LastStep(id).status = "failed"

(***************************************************************************)
(* C26: when pull-request creation succeeds the run posts the comment      *)
(* linking the PR on the ticket, records 'pr_created' and returns the URL  *)
(* of the created PR as pr_url; conversely a successful run returns a      *)
(* non-null pr_url only if it recorded 'pr_created'.                       *)
(* Violated: a PR created with an empty html_url is neither linked nor     *)
(* recorded, and the run returns pr_url '' (not None).                     *)
(***************************************************************************)
C26_PrLinked ==
    \A id \in WorkflowIds :
        pc[id] = "returned" =>
            /\ \A i \in 1..Len(calls[id]) :
                  (calls[id][i].op = "create_pull" /\ calls[id][i].ok) =>
                      /\ i < Len(calls[id])
                      /\ calls[id][i + 1].op = "add_comment"
                      /\ calls[id][i + 1].arg = PrComment
                      /\ HasStatus(id, "pr_created")
                      /\ result[id].success
                      /\ result[id].pr_url = calls[id][i].content
            /\ (result[id].success /\ result[id].pr_url # PyNone)
                  => HasStatus(id, "pr_created")

(***************************************************************************)
(* Twin runs.  Two copies of one run are placed side by side, under the    *)
(* two workflow ids, to compare runs that differ only in what the          *)
(* similar-issue search returned.  Both copies start from the same parsed  *)
(* bug report, just before the search.  The leader takes any step, with any  *)
(* answer of the collaborator it calls; the follower then takes its step   *)
(* with the same answer, except at the search, which is answered with what *)
(* the leader's search did not get.  (The two copies are a device of the   *)
(* comparison: on the event loop two runs are never in flight together.)   *)
(***************************************************************************)
Leader == "C1_100"
Follower == "C1_200"

\* the reports a run can hold after src/mcp_server.py:58-71
ParsedReports ==
    { parse_bug_report(c, llm).value : c \in Conversations, llm \in LlmReportOutcomes }
    \ { r \in { parse_bug_report(c, llm).value :
                    c \in Conversations, llm \in LlmReportOutcomes } : ReportUnusable(r) }

TwinInit ==
    /\ \E r \in ParsedReports :
         /\ frame = [id \in WorkflowIds |-> [NoFrame EXCEPT !.bug_report = r]]
         /\ active_workflows =
              [id \in WorkflowIds |->
                  ApplyUpdates([w \in WorkflowIds |-> NewRecord], id,
                               << <<"parsing_bug_report", NoData>>,
                                  <<"bug_report_parsed", TitleData(r.title)>> >>)[id]]
    /\ pc = [id \in WorkflowIds |-> "similar"]
    /\ calls = [id \in WorkflowIds |-> <<Call("parse_bug_report", TRUE, NoExc, "")>>]
    /\ raised = [id \in WorkflowIds |-> NoExc]
    /\ result = [id \in WorkflowIds |-> NoResult]
    /\ runs = [id \in WorkflowIds |-> 1]
    /\ fn_call = NoFnCall
    /\ fn_return = Pending
    /\ processing_threads = {}
    /\ mention = [m \in Mentions |-> NotDelivered]
    /\ answer = NoAnswer

\* what the search of the run returned or raised
SearchCalls(id) ==
    LET IsSearch(c) == c.op = "search_issues" IN SelectSeq(calls[id], IsSearch)

\* Everything observable of a run except what the search returned: position,
\* status and step log, the collaborator calls with their outcomes (of the
\* search call only that it was made), local variables, and the result
\* without similar_issues (and without the id of the copy).
View(id) ==
    [pc |-> pc[id],
     status |-> active_workflows[id].status,
     steps |-> active_workflows[id].steps,
     calls |-> [i \in 1..Len(calls[id]) |->
                  IF calls[id][i].op = "search_issues"
                  THEN Call("search_issues", TRUE, NoExc, "")
                  ELSE calls[id][i]],
     frame |-> [frame[id] EXCEPT !.similar_issues = <<>>],
     raised |-> raised[id],
     result |-> [result[id] EXCEPT !.similar_issues = <<>>,
                                   !.workflow_id = ""]]

Mirror == View(Leader) = View(Follower)

SearchDiffers ==
    (SearchCalls(Leader) # <<>> /\ SearchCalls(Follower) # <<>>)
        => SearchCalls(Leader) # SearchCalls(Follower)

\* the leader leaves the answer it got for the follower
Leave(value) == answer' = [waiting |-> TRUE, value |-> value]

\* The leader takes the next step of the run, with any answer of the
\* collaborator it calls.
LeaderStep ==
    /\ Mirror
    /\ ~answer.waiting
    /\ \/ \E out \in SearchIssuesOutcomes :
            FindSimilarIssuesWith(Leader, out) /\ Leave(out)
       \/ \E env \in SearchEnvs : AnalyzeCodebaseWith(Leader, env) /\ Leave(env)
       \/ \E env \in ComponentEnvs : AssembleContextWith(Leader, env) /\ Leave(env)
       \/ \E llm \in LlmFixOutcomes : GenerateFixWith(Leader, llm) /\ Leave(llm)
       \/ \E out \in CreateIssueOutcomes : CreateTicketWith(Leader, out) /\ Leave(out)
       \/ \E refs \in GitRefOutcomes \X GitRefOutcomes :
            CreateBranchWith(Leader, refs) /\ Leave(refs)
       \/ \E outcome \in [Paths -> ChangeOutcomes] :
            ApplyCodeChangesWith(Leader, outcome) /\ Leave(outcome)
       \/ \E out \in CreatePullOutcomes :
            CreatePullRequestWith(Leader, out) /\ Leave(out)
       \/ \E out \in AddCommentOutcomes :
            CommentPullRequestWith(Leader, out) /\ Leave(out)
       \/ \E out \in AddCommentOutcomes : CommentManualWith(Leader, out) /\ Leave(out)
       \/ Complete(Leader) /\ Leave(<<>>)
    /\ UNCHANGED <<fn_vars, bot_vars>>

\* The follower takes the same step with the same answer of the collaborator,
\* except that its search is answered differently.
FollowerStep ==
    /\ answer.waiting
    /\ answer' = NoAnswer
    /\ \/ /\ pc[Follower] = "similar"
          /\ \E out \in SearchIssuesOutcomes :
               out # answer.value /\ FindSimilarIssuesWith(Follower, out)
       \/ AnalyzeCodebaseWith(Follower, answer.value)
       \/ AssembleContextWith(Follower, answer.value)
       \/ GenerateFixWith(Follower, answer.value)
       \/ CreateTicketWith(Follower, answer.value)
       \/ CreateBranchWith(Follower, answer.value)
       \/ ApplyCodeChangesWith(Follower, answer.value)
       \/ CreatePullRequestWith(Follower, answer.value)
       \/ CommentPullRequestWith(Follower, answer.value)
       \/ CommentManualWith(Follower, answer.value)
       \/ Complete(Follower)
    /\ UNCHANGED <<fn_vars, bot_vars>>

TwinNext == LeaderStep \/ FollowerStep

TwinSpec == TwinInit /\ [][TwinNext]_vars

(***************************************************************************)
(* C27: duplicate detection is advisory only: two runs that differ only in *)
(* what the similar-issue search returned go through the same positions    *)
(* and status transitions, make the same collaborator calls with the same  *)
(* outcomes, and return results that are equal except for similar_issues.  *)
(***************************************************************************)
C27_SearchAdvisory ==
    ~answer.waiting =>
        /\ Mirror
        /\ SearchDiffers
        /\ Steps(Leader) = Steps(Follower)
        /\ [i \in 1..Len(calls[Leader]) |-> calls[Leader][i].op]
             = [i \in 1..Len(calls[Follower]) |-> calls[Follower][i].op]
        /\ [result[Leader] EXCEPT !.similar_issues = <<>>, !.workflow_id = ""]
             = [result[Follower] EXCEPT !.similar_issues = <<>>, !.workflow_id = ""]

C27_Witness ==
    /\ ~answer.waiting
    /\ pc[Leader] = "returned" /\ pc[Follower] = "returned"
    /\ result[Leader].success
    /\ HasStatus(Leader, "pr_created")
    /\ result[Leader].similar_issues # result[Follower].similar_issues

(***************************************************************************)
(* C28: the severity reported in every successful result is one of         *)
(* Critical, High, Medium, Low (Medium when the language model gave none   *)
(* or an unrecognized one).                                                *)
(* Violated: a severity the language model invented ('Urgent') is returned *)
(* as it is.                                                               *)
(***************************************************************************)
Severities == {"Critical", "High", "Medium", "Low"}

C28_SeverityEnum ==
    \A id \in WorkflowIds :
        (pc[id] = "returned" /\ result[id].success)
            => result[id].severity \in Severities

(***************************************************************************)
(* Observations of a direct call of get_relevant_files.                    *)
(***************************************************************************)
\* the searches made by the call, in order
QueriesIssued == [i \in 1..Len(fn_return.value.queries) |->
                    fn_return.value.queries[i].query]

\* the place of a query among the layered strategies
Layers == <<"filename", "component", "text", "fallback">>
Layer(query) == CHOOSE i \in 1..Len(Layers) : Layers[i] = query

\* the searches made by the call that found the path
FoundBy(path) ==
    { i \in 1..Len(QueriesIssued) :
        LET found == fn_call.env.search[QueriesIssued[i]]
        IN ~found.raised /\ \E j \in 1..Len(found.value) : found.value[j] = path }

\* the first search that found the path
Origin(path) == CHOOSE i \in FoundBy(path) : \A j \in FoundBy(path) : i <= j

(***************************************************************************)
(* C29: get_relevant_files returns at most max_files entries with pairwise *)
(* distinct paths, makes no search once max_files files are collected, and *)
(* returns the files in the order of the layered strategies (filename,     *)
(* component, text, fallback): the searches are made in that order, and a  *)
(* file first found by an earlier search precedes one first found later.   *)
(***************************************************************************)
C29_FilesBounded ==
    Called("get_relevant_files") =>
        LET files == fn_return.value.files
            queries == fn_return.value.queries
        IN /\ Len(files) <= fn_call.max_files
           /\ \A i, j \in 1..Len(files) : i # j => files[i].path # files[j].path
           /\ \A i \in 1..Len(queries) : queries[i].collected < fn_call.max_files
           /\ \A i, j \in 1..Len(queries) :
                 i < j => Layer(QueriesIssued[i]) < Layer(QueriesIssued[j])
           /\ \A i \in 1..Len(files) : FoundBy(files[i].path) # {}
           /\ \A i, j \in 1..Len(files) :
                 i < j => Origin(files[i].path) <= Origin(files[j].path)

\* the limit is reached after the second search, with a duplicate dropped
C29_Witness ==
    /\ Called("get_relevant_files")
    /\ fn_call.max_files = 2
    /\ Len(fn_return.value.files) = 2
    /\ Len(fn_return.value.queries) = 2
    /\ Len(fn_call.env.search[QueriesIssued[2]].value) = 3
    /\ Len(SearchQueries(fn_call.keywords)) = 4

(***************************************************************************)
(* C30: a file found by the search is skipped if and only if its stored    *)
(* size exceeds 200000 bytes; a file of exactly 200000 bytes is included.  *)
(* Stated for calls whose limit is never reached and for files whose       *)
(* content could be fetched.                                               *)
(* Violated: a file of exactly 200000 bytes is skipped.                    *)
(***************************************************************************)
C30_SizeLimit ==
    (Called("get_relevant_files") /\ fn_call.max_files >= Cardinality(Paths)) =>
        \A path \in Paths :
            (FoundBy(path) # {} /\ ~fn_call.env.fetch[path].raised) =>
                ((\E i \in 1..Len(fn_return.value.files) :
                     fn_return.value.files[i].path = path)
                 <=> ~(fn_call.env.fetch[path].value > SizeLimit))

(***************************************************************************)
(* C31: the code context handed to the fix-proposal call is never the      *)
(* empty string: when nothing was found, and whatever failed during        *)
(* context assembly, it is the 'no context found' sentinel.                *)
(* Violated: when analyze_codebase_context raises and no file was found,   *)
(* the fix-proposal call gets the empty string.                            *)
(***************************************************************************)
C31_ContextNonEmpty ==
    \A id \in WorkflowIds :
        pc[id] = "generate" => frame[id].code_context # <<>>

(***************************************************************************)
(* C32 as claimed: a hunk whose deletion range runs past the end of the    *)
(* document is clamped: for a hunk at 0-based offset s with r '-' lines    *)
(* where s + r exceeds the number of lines, no exception is raised and the *)
(* result is the lines before offset s, followed by the hunk's added       *)
(* lines, with nothing after them (also when s is beyond the last line).   *)
(* Violated: for the empty document the engine returns the empty text and  *)
(* not the added lines.                                                    *)
(***************************************************************************)
C32_RangeClamped ==
    Called("_apply_diff_to_content") =>
        \A doc \in SingleHunkDocs, p \in 1..MaxHunkStart, k \in 0..MaxHunkCount,
           added \in AddedBlocks :
            (/\ fn_call.original = Text(doc)
             /\ fn_call.diff = Text(HunkLines(doc, p, k, added))
             /\ (p - 1) + k > Len(doc)) =>
                /\ ~fn_return.raised
                /\ fn_return.value =
                      Text(SubSeq(doc, 1, Min(p - 1, Len(doc))) \o added)

(***************************************************************************)
(* Observations of a direct call of _apply_diff_to_content.                *)
(***************************************************************************)
\* the hunks of the patch of the call
PatchHunks == ParseHunks(SplitLines(fn_call.diff), <<>>).value

\* the lines a hunk removes and the lines it adds
Removed(hunk) == SelectSeq(hunk.changes, IsRemoval)
Added(hunk) ==
    LET plus == SelectSeq(hunk.changes, IsAddition)
    IN [i \in 1..Len(plus) |-> DropFirst(plus[i])]

\* the call has a patch of two hunks made of '-' and '+' lines only, listed
\* in ascending order, the first ending before the second starts and the
\* second inside the document
AscendingPatch(doc) ==
    /\ Called("_apply_diff_to_content")
    /\ fn_call.original = Text(doc)
    /\ TwoHunks(fn_call.diff)
    /\ \A h \in 1..2 : \A i \in 1..Len(PatchHunks[h].changes) :
          ~IsContext(PatchHunks[h].changes[i])
    /\ PatchHunks[1].old_start >= 0
    /\ PatchHunks[1].old_start + Len(Removed(PatchHunks[1])) <= PatchHunks[2].old_start
    /\ PatchHunks[2].old_start + Len(Removed(PatchHunks[2])) <= Len(doc)

(***************************************************************************)
(* C33: for a patch whose hunks do not overlap, hold only '-' and '+'      *)
(* lines and are listed in ascending order, applying them last-first gives *)
(* the document in which each hunk replaces exactly the original lines it  *)
(* names, however many lines the other hunk adds or removes.               *)
(***************************************************************************)
C33_OriginalNumbering ==
    AscendingPatch(Doc10) =>
        LET first == PatchHunks[1]
            second == PatchHunks[2]
        IN /\ ~fn_return.raised
           /\ fn_return.value =
                 Text(SubSeq(Doc10, 1, first.old_start)
                      \o Added(first)
                      \o SubSeq(Doc10, first.old_start + Len(Removed(first)) + 1,
                                second.old_start)
                      \o Added(second)
                      \o SubSeq(Doc10, second.old_start + Len(Removed(second)) + 1,
                                Len(Doc10)))

\* the first hunk turns one line into two, the second removes two lines
C33_Witness ==
    /\ AscendingPatch(Doc10)
    /\ Len(Removed(PatchHunks[1])) = 1 /\ Len(Added(PatchHunks[1])) = 2
    /\ Len(Removed(PatchHunks[2])) = 2 /\ Len(Added(PatchHunks[2])) = 0
    /\ Len(SplitLines(fn_return.value)) = Len(Doc10) - 1

\* the lines of a hunk with the given tags, in order and without the tag
Side(hunk, tags) ==
    LET OnSide(line) == line # <<>> /\ Head(line) \in tags
        lines == SelectSeq(hunk.changes, OnSide)
    IN [i \in 1..Len(lines) |-> DropFirst(lines[i])]

\* the call has a patch of one hunk with at least one context line, whose
\* context and '-' lines are the lines of the document at the hunk's place
ContextPatch ==
    /\ Called("_apply_diff_to_content")
    /\ ~ParseHunks(SplitLines(fn_call.diff), <<>>).raised
    /\ Len(PatchHunks) = 1
    /\ Side(PatchHunks[1], {" "}) # <<>>
    /\ PatchHunks[1].old_start >= 0
    /\ LET old == Side(PatchHunks[1], {" ", "-"})
           at == PatchHunks[1].old_start
       IN /\ at + Len(old) <= Len(SplitLines(fn_call.original))
          /\ SubSeq(SplitLines(fn_call.original), at + 1, at + Len(old)) = old

(***************************************************************************)
(* C34 as claimed: context lines are kept as they are: a hunk of context   *)
(* lines that match the document leaves the line sequence unchanged, and a *)
(* hunk that mixes matching context lines with '-' and '+' lines changes   *)
(* only the removed and added lines, each context line appearing once.     *)
(* Violated: context lines are inserted like added lines and never         *)
(* removed, so they appear twice, and the '-' lines are deleted from the   *)
(* hunk's first line on, where the context lines are.                      *)
(***************************************************************************)
C34_ContextKept ==
    ContextPatch =>
        LET doc == SplitLines(fn_call.original)
            at == PatchHunks[1].old_start
            old == Side(PatchHunks[1], {" ", "-"})
            new == Side(PatchHunks[1], {" ", "+"})
        IN /\ ~fn_return.raised
           /\ SplitLines(fn_return.value) =
                 SubSeq(doc, 1, at) \o new \o SubSeq(doc, at + Len(old) + 1, Len(doc))

(***************************************************************************)
(* C35 as claimed: every hunk parsed from a patch has an old_start that is *)
(* a valid 0-based line offset (old_start >= 0), for every header the      *)
(* parser accepts, also one whose old range starts at 0 such as            *)
(* '@@ -0,0 +1,2 @@'; the added lines of such a hunk are inserted at the   *)
(* top of the document.                                                    *)
(* Violated: the old range '-0,0' gives old_start = -1, and list.insert    *)
(* takes a negative index from the end of the list.                        *)
(***************************************************************************)
C35_OffsetValid ==
    (/\ Called("_apply_diff_to_content")
     /\ fn_call.original # <<>> /\ fn_call.diff # <<>>
     /\ ~fn_return.raised) =>
        /\ \A h \in 1..Len(PatchHunks) : PatchHunks[h].old_start >= 0
        /\ \A h \in 1..Len(PatchHunks) :
              (Len(PatchHunks) = 1 /\ PatchHunks[h].old_start <= 0
                                   /\ Side(PatchHunks[h], {" ", "-"}) = <<>>) =>
                  SplitLines(fn_return.value) =
                      Added(PatchHunks[h]) \o SplitLines(fn_call.original)

(***************************************************************************)
(* C36: the collaborator calls of a run are ordered.  Whenever a run makes *)
(* a call: the ticket is created only after the fix-proposal call; a       *)
(* branch is created only after the ticket was created and only if         *)
(* code_changes is not empty; a file is written only after the branch was  *)
(* created; the pull request is created only after every change with a     *)
(* non-empty path and content was written, and no write failed.            *)
(***************************************************************************)
FileWrites == {"update_file", "create_file"}

\* the run has made the call op, and it succeeded
Succeeded(id, op) ==
    \E j \in 1..Len(calls[id]) : calls[id][j].op = op /\ calls[id][j].ok

\* what has to be the case when the run makes the call c
MayCall(id, c) ==
    /\ c.op = "create_issue" =>
          /\ Succeeded(id, "parse_bug_report")
          /\ HasCall(id, "generate_code_fix")
          /\ HasStatus(id, "fix_generated")
    /\ c.op = "create_git_ref" =>
          /\ Succeeded(id, "create_issue")
          /\ frame[id].issue_key # ""
          /\ GetCodeChanges(frame[id].fix).items # <<>>
    /\ c.op \in FileWrites =>
          \E j \in 1..Len(calls[id]) :
              /\ calls[id][j].op = "create_git_ref" /\ calls[id][j].ok
              /\ calls[id][j].arg = frame[id].branch_name
    /\ c.op = "create_pull" =>
          LET changes == GetCodeChanges(frame[id].fix).items IN
          /\ \A j \in 1..Len(calls[id]) :
                calls[id][j].op \in FileWrites => calls[id][j].ok
          /\ \A k \in 1..Len(changes) :
                (changes[k].file # "" /\ changes[k].changes # "") =>
                    \E j \in 1..Len(calls[id]) :
                        /\ calls[id][j].op \in FileWrites
                        /\ calls[id][j].arg = changes[k].file
                        /\ calls[id][j].content = changes[k].changes

RunStep(id) ==
    /\ \/ ParseBugReport(id) \/ FindSimilarIssues(id) \/ AnalyzeCodebase(id)
       \/ AssembleContext(id) \/ GenerateFix(id) \/ CreateTicket(id)
       \/ CreateBranch(id) \/ ApplyCodeChanges(id) \/ CreatePullRequest(id)
       \/ CommentPullRequest(id) \/ CommentManual(id) \/ Complete(id)
    /\ UNCHANGED <<fn_vars, bot_vars, answer>>

LiveNext ==
    \/ Start(Leader) /\ UNCHANGED <<fn_vars, bot_vars, answer>>
    \/ ParseBugReport(Leader) /\ UNCHANGED <<fn_vars, bot_vars, answer>>
    \/ FindSimilarIssues(Leader) /\ UNCHANGED <<fn_vars, bot_vars, answer>>
    \/ AnalyzeCodebase(Leader) /\ UNCHANGED <<fn_vars, bot_vars, answer>>
    \/ AssembleContext(Leader) /\ UNCHANGED <<fn_vars, bot_vars, answer>>
    \/ GenerateFix(Leader) /\ UNCHANGED <<fn_vars, bot_vars, answer>>
    \/ CreateTicket(Leader) /\ UNCHANGED <<fn_vars, bot_vars, answer>>
    \/ CreateBranch(Leader) /\ UNCHANGED <<fn_vars, bot_vars, answer>>
    \/ ApplyCodeChanges(Leader) /\ UNCHANGED <<fn_vars, bot_vars, answer>>
    \/ CreatePullRequest(Leader) /\ UNCHANGED <<fn_vars, bot_vars, answer>>
    \/ CommentPullRequest(Leader) /\ UNCHANGED <<fn_vars, bot_vars, answer>>
    \/ CommentManual(Leader) /\ UNCHANGED <<fn_vars, bot_vars, answer>>
    \/ Complete(Leader) /\ UNCHANGED <<fn_vars, bot_vars, answer>>
    \/ Return(Leader) /\ UNCHANGED <<fn_vars, bot_vars, answer>>

LiveSpec == Init /\ [][LiveNext]_vars /\ WF_vars(RunStep(Leader))

\* the statuses a run has logged are pairwise different, and it has asked
\* for a branch at most twice
NothingRepeated(id) ==
    LET IsRef(c) == c.op = "create_git_ref" IN
    /\ \A i, j \in 1..Len(Steps(id)) :
         i # j => Steps(id)[i].status # Steps(id)[j].status
    /\ Len(SelectSeq(calls[id], IsRef)) <= 2

(***************************************************************************)
(* C37: every run terminates: a run that has been started eventually has   *)
(* returned with its record at 'completed' or 'failed'; on the way no      *)
(* status is logged twice and the branch is asked for at most twice (one   *)
(* retry).                                                                 *)
(***************************************************************************)
C37_Terminates ==
    /\ [](\A id \in WorkflowIds : NothingRepeated(id))
    /\ \A id \in WorkflowIds :
         (pc[id] # "idle") ~> (/\ pc[id] = "returned"
                               /\ active_workflows[id].status \in {"completed", "failed"})

\* a second run of the thread has returned 'completed' after a retried branch
C37_Witness ==
    LET IsRef(c) == c.op = "create_git_ref" IN
    /\ runs[Leader] = 2
    /\ pc[Leader] = "returned"
    /\ active_workflows[Leader].status = "completed"
    /\ Len(SelectSeq(calls[Leader], IsRef)) = 2

(***************************************************************************)
(* C38: the returned result agrees with the stored record: a run that      *)
(* returns success = true leaves its record at 'completed'; a run that     *)
(* returns success = false leaves it at 'failed', and the error text in    *)
(* the data of the last step is the result's error field.                  *)
(***************************************************************************)
C38_ResultAgrees ==
    \A id \in WorkflowIds :
        pc[id] = "returned" =>
            IF result[id].success
            THEN active_workflows[id].status = "completed"
            ELSE /\ active_workflows[id].status = "failed"
                 /\ "error" \in result[id].keys
                 /\ LastStep(id).status = "failed"
                 /\ "error" \in LastStep(id).data.keys
                 /\ LastStep(id).data.error = result[id].error

\* one thread has returned success, the other a failure with a non-empty text
C38_Witness ==
    \E id, other \in WorkflowIds :
        /\ pc[id] = "returned" /\ ~result[id].success /\ result[id].error = "boom"
        /\ active_workflows[other].status = "completed"

(***************************************************************************)
(* C39: the status field of a record is the status of the last entry of    *)
(* its step log; a record whose log is empty has status 'started'.         *)
(***************************************************************************)
C39_StatusIsLastStep ==
    \* the record as assigned at the start of a run, before its first step
    /\ NewRecord.steps = <<>> /\ NewRecord.status = "started"
    /\ \A id \in WorkflowIds :
         active_workflows[id] # NoRecord =>
             IF Steps(id) # <<>>
             THEN active_workflows[id].status = LastStep(id).status
             ELSE active_workflows[id].status = "started"

\* a run is under way with several steps logged while the record of an
\* earlier run on the other thread stays at 'failed'
C39_Witness ==
    \E id, other \in WorkflowIds :
        /\ pc[id] = "ticket"
        /\ Len(Steps(id)) >= 5
        /\ active_workflows[id].status = "creating_jira_ticket"
        /\ active_workflows[other].status = "failed"

====
